---- MODULE Spec2Model ----
(***************************************************************************)
(* Ledger of the blockchain simulator: Transaction, MerkleTree, Block,     *)
(* ProofOfWork.create_block and Blockchain (add_block, replace_chain,      *)
(* validate_chain), translated from src/src/*.py.                          *)
(*                                                                         *)
(* Hashing.  SHA-256 is modelled as an injective function: a hash value is *)
(* the tuple of the fields that were hashed.  The number of leading zero   *)
(* hex digits of a block hash is a fixed function of the hashed header     *)
(* (LeadingZeros).  Python list positions are 0-based, sequences here are  *)
(* 1-based: chain[i] of the source is chain[i + 1] here, while the block   *)
(* field `index` keeps the source's 0-based value.                         *)
(*                                                                         *)
(* Amounts are floats in the source; the model uses integers (every        *)
(* amount, fee and reward of the model is exactly representable).          *)
(***************************************************************************)
EXTENDS Integers, Sequences, FiniteSets, TLC

VARIABLES
    chain,          \* Blockchain.chain: the list of blocks
    state,          \* Blockchain.state: address -> [balance, nonce]
    last,           \* the last call made on the Blockchain and what it returned
    metrics,        \* MetricsCollector: blocks (hashes recorded as mined) and
                    \* orphan_blocks (total_orphans is its length)
    mempool,        \* Mempool.transactions and Mempool.timestamps: the entries
                    \* [tx, timestamp] in the insertion order of the dicts
    clock,          \* time.time()
    is_crashed,     \* P2PNode.is_crashed
    seen_messages,  \* P2PNode.seen_messages
    peers,          \* the keys of P2PNode.peers
    fault,          \* P2PNode.message_drop_prob and message_delay_ms
    delayed,        \* the _handle_message calls suspended in the injected delay
    delivered,      \* msg_id -> envelopes handed to the message handler since
                    \* the last P2PNode.restart
    out,            \* what the last step wrote to the peers' sockets
    is_mining,      \* BlockchainNode.is_mining
    stop_mining_event,  \* BlockchainNode.stop_mining_event is set
    searches,       \* the mine_next_block calls suspended in mine_block_async
    auto_mine,      \* BlockchainNode.auto_mine
    mine_tasks,     \* mine_next_block tasks created and not yet started
    network,        \* several BlockchainNodes, their connections and the
                    \* lines written to a connection and not yet read
    pow,            \* a ProofOfWork: difficulty, recent_block_times and
                    \* enable_adjustment
    p2p             \* a P2PNode's connections: peers (peer_id -> writer),
                    \* peer_info, the _listen_to_peer tasks, the closed
                    \* streams and what the last broadcast wrote

poolVars == <<mempool, clock>>

netVars == <<is_crashed, seen_messages, peers, fault, delayed, delivered, out>>

mineVars == <<is_mining, stop_mining_event, searches, auto_mine, mine_tasks>>

nodeVars == <<netVars, mineVars>>

vars == <<chain, state, last, metrics, mempool, clock, netVars, mineVars, network,
          pow, p2p>>

-----------------------------------------------------------------------------
(* Values *)

None == <<"None">>                  \* Python None (an absent optional field)
COINBASE == "COINBASE"              \* sentinel sender of block rewards
ZeroHash == <<"0">>                 \* "0" * 64
EmptyHash == <<>>                   \* sha256("")

\* ProofOfWork.__init__ default block_reward
BlockReward == 50
\* ProofOfWork.__init__ default difficulty
Difficulty == 2
\* difficulty of Block.create_genesis_block
GenesisDifficulty == 2
\* "0" * 64 has 64 leading zeros
ZeroHashZeros == 64
\* period of the modelled leading-zero function of a block hash
ZeroCycle == 3

\* longest chain a Blockchain of the model grows to
MaxChain == 3

\* Mempool(max_size, expiry_seconds) of the model, and the last clock value
MaxSize == 2
ExpirySeconds == 1
MaxClock == 2

-----------------------------------------------------------------------------
(* Transaction *)

Transaction(sender, receiver, amount, fee, nonce, signature, tx_hash) ==
    [sender |-> sender, receiver |-> receiver, amount |-> amount, fee |-> fee,
     nonce |-> nonce, signature |-> signature, _hash |-> tx_hash]

\* Transaction.compute_hash: sha256 of {sender, receiver, amount, fee, nonce}
TxComputeHash(tx) == <<tx.sender, tx.receiver, tx.amount, tx.fee, tx.nonce>>

\* Transaction.hash: the supplied or cached hash if there is one
TxHash(tx) == IF tx._hash = None THEN TxComputeHash(tx) ELSE tx._hash

\* hmac.new(key, msg, sha256).hexdigest()
HMAC(key, msg) == <<key, msg>>

\* Transaction.sign(private_key)
Sign(tx, private_key) ==
    [tx EXCEPT !.signature = HMAC(private_key, TxComputeHash(tx))]

\* Transaction.verify_signature(public_key)
VerifySignature(tx, public_key) ==
    /\ tx.signature # None
    /\ tx.signature = HMAC(public_key, TxComputeHash(tx))

\* Transaction.is_valid(verify_sig): the error message, "" when valid
TxIsValid(tx, verify_sig) ==
    IF tx.amount < 0 THEN "Amount cannot be negative"
    ELSE IF tx.amount = 0 /\ tx.sender # COINBASE
        THEN "Amount must be positive for non-coinbase transactions"
    ELSE IF tx.fee < 0 THEN "Fee cannot be negative"
    ELSE IF tx.sender = tx.receiver THEN "Sender and receiver must be different"
    ELSE IF verify_sig /\ tx.sender # COINBASE /\ tx.signature = None
        THEN "Transaction must be signed"
    ELSE IF verify_sig /\ tx.sender # COINBASE /\ ~VerifySignature(tx, tx.sender)
        THEN "Invalid signature"
    ELSE ""

\* Transaction.create_coinbase(miner, reward)
CreateCoinbase(miner, reward) ==
    Transaction(COINBASE, miner, reward, 0, 0, <<"COINBASE">>, None)

-----------------------------------------------------------------------------
(* MerkleTree *)

\* MerkleTree._hash_pair
HashPair(left, right) == <<left, right>>

\* one pass of the while loop of MerkleTree._build_tree
MerkleNextLevel(level) ==
    [k \in 1..((Len(level) + 1) \div 2) |->
        HashPair(level[2 * k - 1],
                 IF 2 * k <= Len(level) THEN level[2 * k] ELSE level[2 * k - 1])]

RECURSIVE MerkleReduce(_)
MerkleReduce(level) ==
    IF Len(level) > 1 THEN MerkleReduce(MerkleNextLevel(level)) ELSE level[1]

\* compute_merkle_root(transactions) = MerkleTree(transactions).root
ComputeMerkleRoot(transactions) ==
    IF transactions = <<>> THEN EmptyHash
    ELSE LET hashes == [k \in 1..Len(transactions) |-> TxHash(transactions[k])]
             leaves == IF Len(hashes) % 2 = 1
                       THEN Append(hashes, hashes[Len(hashes)]) ELSE hashes
         IN MerkleReduce(leaves)

-----------------------------------------------------------------------------
(* Block *)

Block(index, transactions, previous_hash, timestamp, nonce, difficulty, block_hash, merkle_root) ==
    [index |-> index, transactions |-> transactions,
     previous_hash |-> previous_hash, timestamp |-> timestamp, nonce |-> nonce,
     difficulty |-> difficulty, _hash |-> block_hash, _merkle_root |-> merkle_root]

\* Block.merkle_root: the supplied or cached root if there is one
BlockMerkleRoot(b) ==
    IF b._merkle_root = None THEN ComputeMerkleRoot(b.transactions)
    ELSE b._merkle_root

\* Block.compute_hash: sha256 of the header
BlockComputeHash(b) ==
    <<b.index, BlockMerkleRoot(b), b.previous_hash, b.timestamp, b.nonce,
      b.difficulty>>

\* Block.hash: the supplied or cached hash if there is one
BlockHash(b) == IF b._hash = None THEN BlockComputeHash(b) ELSE b._hash

\* number of leading "0" hex digits of a hash value
LeadingZeros(h) ==
    IF h = ZeroHash THEN ZeroHashZeros
    ELSE IF Len(h) = 6 THEN (h[1] + h[5]) % ZeroCycle
    ELSE 0

\* Block.is_valid_proof: self.hash.startswith("0" * self.difficulty)
IsValidProof(b) == LeadingZeros(BlockHash(b)) >= b.difficulty

\* Block.mine() without max_iterations
RECURSIVE Mine(_)
Mine(b) ==
    IF IsValidProof(b) THEN b
    ELSE Mine([b EXCEPT !.nonce = @ + 1, !._hash = None])

\* first error of the loop "for i, tx in enumerate(self.transactions)" of is_valid
RECURSIVE BlockTxError(_, _)
BlockTxError(transactions, i) ==
    IF i > Len(transactions) THEN ""
    ELSE LET tx == transactions[i]
             error == TxIsValid(tx, tx.sender # COINBASE)
         IN IF error # "" THEN "Invalid transaction" ELSE BlockTxError(transactions, i + 1)

\* Block.is_valid(verify_transactions=True): the error, "" when valid
BlockIsValid(b) ==
    IF ~IsValidProof(b) THEN "Invalid proof of work"
    ELSE IF b.transactions = <<>> THEN "Block must contain at least one transaction"
    ELSE IF b.transactions[1].sender # COINBASE THEN "First transaction must be coinbase"
    ELSE IF b._merkle_root # None /\ b._merkle_root # ComputeMerkleRoot(b.transactions)
        THEN "Merkle root mismatch"
    ELSE BlockTxError(b.transactions, 1)

\* Block.create_genesis_block at time `timestamp`
CreateGenesisBlock(timestamp) ==
    Mine(Block(0, <<CreateCoinbase("GENESIS", 0)>>, ZeroHash, timestamp, 0,
               GenesisDifficulty, None, None))

-----------------------------------------------------------------------------
(* Blockchain: account state *)

EmptyState == [a \in {} |-> 0]      \* self.state = {}

NewAccount == [balance |-> 0, nonce |-> 0]

\* Blockchain.get_balance / get_nonce on a state dict
GetBalance(st, address) == IF address \in DOMAIN st THEN st[address].balance ELSE 0
GetNonce(st, address) == IF address \in DOMAIN st THEN st[address].nonce ELSE 0

\* body of the loop of Blockchain._apply_block_to_state for one transaction
ApplyTransaction(st, tx) ==
    LET s1 == IF tx.sender \notin DOMAIN st /\ tx.sender # COINBASE
              THEN st @@ (tx.sender :> NewAccount) ELSE st
        s2 == IF tx.receiver \notin DOMAIN s1
              THEN s1 @@ (tx.receiver :> NewAccount) ELSE s1
    IN IF tx.sender = COINBASE
       THEN [s2 EXCEPT ![tx.receiver].balance = @ + tx.amount]
       ELSE LET s3 == [s2 EXCEPT ![tx.sender].balance = @ - (tx.amount + tx.fee)]
                s4 == [s3 EXCEPT ![tx.receiver].balance = @ + tx.amount]
            IN [s4 EXCEPT ![tx.sender].nonce = tx.nonce + 1]

RECURSIVE ApplyTransactions(_, _, _)
ApplyTransactions(st, transactions, i) ==
    IF i > Len(transactions) THEN st
    ELSE ApplyTransactions(ApplyTransaction(st, transactions[i]), transactions, i + 1)

\* Blockchain._apply_block_to_state
ApplyBlockToState(st, b) == ApplyTransactions(st, b.transactions, 1)

\* the loop "for block in self.chain: self._apply_block_to_state(block)"
RECURSIVE ApplyChain(_, _, _)
ApplyChain(st, c, i) ==
    IF i > Len(c) THEN st ELSE ApplyChain(ApplyBlockToState(st, c[i]), c, i + 1)

\* Blockchain.can_apply_transaction on a state: the error, "" when applicable
CanApplyTransaction(st, tx) ==
    LET error == TxIsValid(tx, TRUE)
    IN IF error # "" THEN error
       ELSE IF tx.sender = COINBASE THEN ""
       ELSE IF GetBalance(st, tx.sender) < tx.amount + tx.fee THEN "Insufficient balance"
       ELSE IF tx.nonce # GetNonce(st, tx.sender) THEN "Invalid nonce"
       ELSE ""

-----------------------------------------------------------------------------
(* Blockchain: add_block, validate_chain, replace_chain *)

\* what a call returns and leaves behind
Result(ok, error, c, st) == [ok |-> ok, error |-> error, chain |-> c, state |-> st]

\* the loop "for i, tx in enumerate(block.transactions)" of add_block: every
\* transaction is checked against the state the call started with
RECURSIVE AddBlockTxError(_, _, _)
AddBlockTxError(st, transactions, i) ==
    IF i > Len(transactions) THEN ""
    ELSE IF i = 1 /\ transactions[i].sender = COINBASE
        THEN AddBlockTxError(st, transactions, i + 1)
    ELSE LET error == CanApplyTransaction(st, transactions[i])
         IN IF error # "" THEN "Transaction invalid: " \o error
            ELSE AddBlockTxError(st, transactions, i + 1)

\* add_block as it would be if the coinbase were applied before the other
\* transactions are checked
add_block_partial(c, st, block) ==
    LET error == BlockIsValid(block)
        tx_error == AddBlockTxError(st, block.transactions, 1)
    IN IF error # "" THEN Result(FALSE, error, c, st)
       ELSE IF block.index # Len(c) THEN Result(FALSE, "Invalid index", c, st)
       ELSE IF block.previous_hash # BlockHash(c[Len(c)])
           THEN Result(FALSE, "Invalid previous_hash", c, st)
       ELSE IF tx_error # ""
           THEN Result(FALSE, tx_error, c, ApplyTransaction(st, block.transactions[1]))
       ELSE Result(TRUE, "", Append(c, block), ApplyBlockToState(st, block))

\* Blockchain.add_block(block) called on (c, st)
add_block(c, st, block) ==
    LET error == BlockIsValid(block)
        tx_error == AddBlockTxError(st, block.transactions, 1)
    IN IF error # "" THEN Result(FALSE, error, c, st)
       ELSE IF block.index # Len(c) THEN Result(FALSE, "Invalid index", c, st)
       ELSE IF block.previous_hash # BlockHash(c[Len(c)])
           THEN Result(FALSE, "Invalid previous_hash", c, st)
       ELSE IF tx_error # "" THEN Result(FALSE, tx_error, c, st)
       ELSE Result(TRUE, "", Append(c, block), ApplyBlockToState(st, block))

\* the loop "for i in range(len(chain))" of validate_chain
RECURSIVE ValidateBlocks(_, _)
ValidateBlocks(c, i) ==
    IF i > Len(c) THEN ""
    ELSE LET error == BlockIsValid(c[i])
         IN IF error # "" THEN "Block invalid: " \o error
            ELSE IF c[i].index # i - 1 THEN "Block has wrong index"
            ELSE IF i > 1 /\ c[i].previous_hash # BlockHash(c[i - 1])
                THEN "Block has invalid previous_hash"
            ELSE ValidateBlocks(c, i + 1)

\* validate_chain as it would be without the index and previous_hash tests
\* of its loop
validate_chain_unlinked(c) ==
    IF c = <<>> THEN "Chain is empty"
    ELSE IF c[1].index # 0 THEN "Invalid genesis block index"
    ELSE IF c[1].previous_hash # ZeroHash THEN "Invalid genesis block previous_hash"
    ELSE IF \E i \in 1..Len(c) : BlockIsValid(c[i]) # "" THEN "Block invalid"
    ELSE ""

\* Blockchain.validate_chain(chain): the error, "" when valid
validate_chain(c) ==
    IF c = <<>> THEN "Chain is empty"
    ELSE IF c[1].index # 0 THEN "Invalid genesis block index"
    ELSE IF c[1].previous_hash # ZeroHash THEN "Invalid genesis block previous_hash"
    ELSE ValidateBlocks(c, 1)

\* the test as it would be with "<" for "<="
NotLongerStrict(new_chain, c) == Len(new_chain) < Len(c)

\* the test "len(new_chain) <= len(self.chain)" of replace_chain
NotLonger(new_chain, c) == Len(new_chain) <= Len(c)

\* the rebuild as it would be without "self.state = {}"
RebuildStateNoReset(st, new_chain) == ApplyChain(st, new_chain, 1)

\* "self.state = {}; for block in self.chain: self._apply_block_to_state(block)"
RebuildState(st, new_chain) == ApplyChain(EmptyState, new_chain, 1)

\* Blockchain.replace_chain(new_chain) called on (c, st)
replace_chain(c, st, new_chain) ==
    LET error == validate_chain(new_chain)
    IN IF NotLonger(new_chain, c) THEN Result(FALSE, "New chain is not longer", c, st)
       ELSE IF error # "" THEN Result(FALSE, "Invalid chain: " \o error, c, st)
       ELSE Result(TRUE, "", new_chain, RebuildState(st, new_chain))

-----------------------------------------------------------------------------
(* ProofOfWork.create_block *)

RECURSIVE SumFees(_, _)
SumFees(transactions, i) ==
    IF i > Len(transactions) THEN 0
    ELSE transactions[i].fee + SumFees(transactions, i + 1)

\* ProofOfWork.create_block(index, transactions, previous_hash, miner_address),
\* Block() taking `timestamp` from the clock
CreateBlock(index, transactions, previous_hash, miner_address, timestamp) ==
    Block(index,
          <<CreateCoinbase(miner_address, BlockReward + SumFees(transactions, 1))>>
              \o transactions,
          previous_hash, timestamp, 0, Difficulty, None, None)

\* "[tx.hash for tx in block.transactions]", and the hashes of the blocks of a chain
BlockTxHashes(b) == {TxHash(b.transactions[k]) : k \in 1..Len(b.transactions)}
BlockHashes(c) == {BlockHash(c[i]) : i \in 1..Len(c)}

\* the list p without its i-th element
WithoutEntry(p, i) == SubSeq(p, 1, i - 1) \o SubSeq(p, i + 1, Len(p))

-----------------------------------------------------------------------------
(* Mempool: operations on the entries p at time t *)

Entry(tx, timestamp) == [tx |-> tx, timestamp |-> timestamp]

\* the keys of Mempool.transactions
PoolHashes(p) == {TxHash(p[i].tx) : i \in 1..Len(p)}

\* Mempool.has_transaction
has_transaction(p, tx_hash) == tx_hash \in PoolHashes(p)

\* Mempool.size
Size(p) == Len(p)

\* remove_transaction as it would be if it deleted nothing
remove_transaction_keep(p, tx_hash) == p

\* Mempool.remove_transaction: the entries left
remove_transaction(p, tx_hash) ==
    SelectSeq(p, LAMBDA e : TxHash(e.tx) # tx_hash)

\* Mempool.remove_transactions: the entries left
remove_transactions(p, tx_hashes) ==
    SelectSeq(p, LAMBDA e : TxHash(e.tx) \notin tx_hashes)

\* Mempool.cleanup_expired at time t: the entries left
cleanup_expired(p, t) ==
    SelectSeq(p, LAMBDA e : ~(t - e.timestamp > ExpirySeconds))

\* min(self.transactions.values(), key=lambda t: t.fee): the first entry, in
\* dict order, that no entry undercuts
LowestFeeTx(p) ==
    LET i == CHOOSE i \in 1..Len(p) :
                 /\ \A j \in 1..Len(p) : p[i].tx.fee <= p[j].tx.fee
                 /\ \A j \in 1..(i - 1) : p[j].tx.fee > p[i].tx.fee
    IN p[i].tx

\* the return value of add_transaction, the entries it leaves, and the hash it
\* evicted for its fee (None when it evicted nothing)
PoolResult(ok, p, evicted) == [ok |-> ok, pool |-> p, evicted |-> evicted]

\* add_transaction as it would be with "<" for "<=" in the fee test
add_transaction_tie(p, tx, t) ==
    IF has_transaction(p, TxHash(tx)) THEN PoolResult(FALSE, p, None)
    ELSE IF Len(p) >= MaxSize
        THEN LET q == cleanup_expired(p, t)
             IN IF Len(q) >= MaxSize
                THEN IF tx.fee < LowestFeeTx(q).fee THEN PoolResult(FALSE, q, None)
                     ELSE PoolResult(TRUE,
                             Append(remove_transaction(q, TxHash(LowestFeeTx(q))),
                                    Entry(tx, t)),
                             TxHash(LowestFeeTx(q)))
                ELSE PoolResult(TRUE, Append(q, Entry(tx, t)), None)
    ELSE PoolResult(TRUE, Append(p, Entry(tx, t)), None)

\* Mempool.add_transaction(tx) at time t
add_transaction(p, tx, t) ==
    IF has_transaction(p, TxHash(tx)) THEN PoolResult(FALSE, p, None)
    ELSE IF Len(p) >= MaxSize
        THEN LET q == cleanup_expired(p, t)
             IN IF Len(q) >= MaxSize
                THEN IF tx.fee <= LowestFeeTx(q).fee THEN PoolResult(FALSE, q, None)
                     ELSE PoolResult(TRUE,
                             Append(remove_transaction(q, TxHash(LowestFeeTx(q))),
                                    Entry(tx, t)),
                             TxHash(LowestFeeTx(q)))
                ELSE PoolResult(TRUE, Append(q, Entry(tx, t)), None)
    ELSE PoolResult(TRUE, Append(p, Entry(tx, t)), None)

-----------------------------------------------------------------------------
(* Inputs: the transactions, blocks and chains handed to the Blockchain *)

GenesisTime == 1                    \* clock when the local genesis was created
ForeignGenesisTime == 2             \* clock when another genesis was created
BlockTime == 1                      \* clock when the other blocks were created

Genesis == CreateGenesisBlock(GenesisTime)

SignedTx(sender, receiver, amount, fee, nonce) ==
    Sign(Transaction(sender, receiver, amount, fee, nonce, None, None), sender)

\* transactions that pass Transaction.is_valid
WellFormedTxs ==
    {SignedTx("A", "B", 20, 5, nonce) : nonce \in {0, 1}}
    \cup {SignedTx("A", "B", 30, 0, nonce) : nonce \in {0, 1}}
    \cup {SignedTx("B", "A", 20, 0, 0)}

\* transactions that Transaction.is_valid rejects
MalformedTxs ==
    { Transaction("A", "B", 20, 0, 0, None, None),
      Sign(Transaction("A", "B", 20, 0, 0, None, None), "B"),
      SignedTx("A", "B", 0, 0, 0),
      SignedTx("A", "B", 0 - 20, 0, 0),
      SignedTx("A", "B", 20, 0 - 5, 0),
      SignedTx("A", "A", 20, 0, 0) }

\* transaction lists of the blocks offered to add_block
TxLists ==
    {<<>>} \cup {<<t>> : t \in WellFormedTxs \cup MalformedTxs}
    \cup {<<t, u>> : t \in WellFormedTxs, u \in WellFormedTxs}

\* transaction lists of the blocks of a competing chain
ForkTxLists == {<<>>} \cup {<<t>> : t \in WellFormedTxs}

\* the block a miner builds and mines on top of the chain c
MinedBlock(c, transactions, miner) ==
    Mine(CreateBlock(Len(c), transactions, BlockHash(c[Len(c)]), miner, BlockTime))

\* blocks built on c that break one structural rule each
BrokenBlocks(c) ==
    LET b == CreateBlock(Len(c), <<>>, BlockHash(c[Len(c)]), "A", BlockTime)
        tx == SignedTx("A", "B", 20, 0, 0)
    IN { Mine([b EXCEPT !.index = Len(c) + 1]),
         Mine([b EXCEPT !.previous_hash = ZeroHash]),
         [Mine(b) EXCEPT !.nonce = @ + 1],
         Mine([b EXCEPT !._merkle_root = EmptyHash]),
         Mine([b EXCEPT !.transactions = <<>>]),
         Mine([b EXCEPT !.transactions = <<tx>>]) }

\* a block whose supplied hash field is "0" * 64 (Block.from_dict keeps it)
SuppliedHashBlock(c) ==
    [CreateBlock(Len(c), <<>>, BlockHash(c[Len(c)]), "A", BlockTime)
        EXCEPT !._hash = ZeroHash]

\* blocks offered to add_block when the chain is c
BlockInputs(c) ==
    {MinedBlock(c, transactions, "A") : transactions \in TxLists}
    \cup {MinedBlock(c, <<>>, "B")}
    \cup BrokenBlocks(c) \cup {SuppliedHashBlock(c)}

\* blocks a competing chain continues with after the blocks p
ForkBlockInputs(p) ==
    IF p = <<>> THEN {CreateGenesisBlock(GenesisTime), CreateGenesisBlock(ForeignGenesisTime)}
    ELSE {MinedBlock(p, transactions, "B") : transactions \in ForkTxLists}
         \cup { Mine([CreateBlock(Len(p), <<>>, BlockHash(p[Len(p)]), "B", BlockTime)
                        EXCEPT !.index = Len(p) + 1]),
                Mine(CreateBlock(Len(p), <<>>, ZeroHash, "B", BlockTime)),
                [MinedBlock(p, <<>>, "B") EXCEPT !.nonce = @ + 1] }

\* p continued with one block, and with a coinbase-only block after it, up to
\* the length MaxChain
Forks(p) ==
    LET one == {Append(p, b) : b \in ForkBlockInputs(p)}
    IN IF Len(p) + 1 > MaxChain THEN {}
       ELSE IF Len(p) + 2 > MaxChain THEN one
       ELSE one \cup {Append(q, MinedBlock(q, <<>>, "B")) : q \in one}

\* chains offered to replace_chain when the chain is c: the prefixes of c
\* (c itself and the empty chain included), the chains that continue c, and
\* the chains that replace the tip of c
ChainInputs(c) ==
    {SubSeq(c, 1, k) : k \in 0..Len(c)}
    \cup Forks(c) \cup Forks(SubSeq(c, 1, Len(c) - 1))

-----------------------------------------------------------------------------
(* The Blockchain and the calls made on it *)

\* ProofOfWork.__init__: min_difficulty, max_difficulty and the default
\* target_block_time
MinDifficulty == 1
MaxDifficulty == 8
TargetBlockTime == 10
\* the adjustment_interval the ProofOfWork of the model is constructed with
AdjustmentInterval == 2

\* ProofOfWork(node_id, difficulty, enable_adjustment=...)
ProofOfWork(difficulty, enable_adjustment) ==
    [difficulty |-> difficulty, recent_block_times |-> <<>>,
     enable_adjustment |-> enable_adjustment]

\* P2PNode.__init__: no peers, no listener tasks
P2PNode ==
    [peers |-> [p \in {} |-> 0], peer_info |-> [p \in {} |-> <<>>],
     listeners |-> {}, closed |-> {}, streams |-> 0, written |-> {}, failed |-> {}]

\* the nodes of a network of BlockchainNodes
NetNodes == {"A", "B", "C"}

\* BlockchainNode(node_id, genesis_block=Genesis) after start(); `handled`
\* counts per msg_id the envelopes given to the message handler, `admitted`
\* and `refused` keep the hashes of the transactions the mempool took and
\* turned down
NetNode ==
    [chain |-> <<Genesis>>, state |-> ApplyBlockToState(EmptyState, Genesis),
     mempool |-> <<>>, seen_messages |-> {}, handled |-> <<>>,
     admitted |-> {}, refused |-> {}]

\* the nodes before they connect: `peers` holds P2PNode.peers of every node,
\* `links` per connection and direction the lines written and not yet read,
\* `mined` the last block a node mined and broadcast, with the miner and the
\* length of its chain before
Network ==
    [peers |-> [n \in NetNodes |-> {}], nodes |-> [n \in NetNodes |-> NetNode],
     links |-> [l \in NetNodes \X NetNodes |-> <<>>],
     mined |-> [miner |-> "", block |-> None, length |-> 0]]

Called(op, r) == [op |-> op, ok |-> r.ok, error |-> r.error]

\* Blockchain(genesis_block=Genesis) and a fresh MetricsCollector
Init ==
    /\ chain = <<Genesis>>
    /\ state = ApplyBlockToState(EmptyState, Genesis)
    /\ last = [op |-> "init", ok |-> TRUE, error |-> ""]
    /\ metrics = [blocks |-> {}, orphan_blocks |-> <<>>]
    /\ mempool = <<>>
    /\ clock = 0
    /\ is_crashed = FALSE
    /\ seen_messages = {}
    /\ peers = {}
    /\ fault = [drop_prob |-> 0, delay_ms |-> 0]
    /\ delayed = <<>>
    /\ delivered = <<>>
    /\ out = {}
    /\ is_mining = FALSE
    /\ stop_mining_event = FALSE
    /\ searches = <<>>
    /\ auto_mine = FALSE
    /\ mine_tasks = 0
    /\ network = Network
    /\ pow = ProofOfWork(Difficulty, FALSE)
    /\ p2p = P2PNode

\* blockchain.add_block(block): a NEW_BLOCK from a peer, a block mined locally,
\* or a direct call
AddBlock(block) ==
    LET r == add_block(chain, state, block)
    IN /\ chain' = r.chain
       /\ state' = r.state
       /\ last' = Called("add_block", r)
       /\ UNCHANGED <<metrics, poolVars, network, pow, p2p, nodeVars>>

\* blockchain.replace_chain(new_chain): the chain of a CHAIN_RESPONSE
\* (Blockchain.from_dict does not validate it), or a direct call
ReplaceChain(new_chain) ==
    LET r == replace_chain(chain, state, new_chain)
    IN /\ chain' = r.chain
       /\ state' = r.state
       /\ last' = Called("replace_chain", r)
       /\ UNCHANGED <<metrics, poolVars, network, pow, p2p, nodeVars>>

\* metrics.record_block_mined(block.hash, ...) by the harness after it added a block
RecordBlockMined ==
    /\ last.op = "add_block" /\ last.ok
    /\ BlockHash(chain[Len(chain)]) \notin metrics.blocks
    /\ metrics' = [metrics EXCEPT !.blocks = @ \cup {BlockHash(chain[Len(chain)])}]
    /\ UNCHANGED <<chain, state, last, poolVars, network, pow, p2p, nodeVars>>

Next ==
    \/ \E block \in BlockInputs(chain) : Len(chain) < MaxChain /\ AddBlock(block)
    \/ \E new_chain \in ChainInputs(chain) : ReplaceChain(new_chain)

Spec == Init /\ [][Next]_vars

NextMetrics ==
    \/ \E block \in BlockInputs(chain) : Len(chain) < MaxChain /\ AddBlock(block)
    \/ \E new_chain \in ChainInputs(chain) : ReplaceChain(new_chain)
    \/ RecordBlockMined

SpecMetrics == Init /\ [][NextMetrics]_vars

\* a coinbase-only block mined on c one clock tick later
LaterBlock(c, miner) ==
    Mine(CreateBlock(Len(c), <<>>, BlockHash(c[Len(c)]), miner, BlockTime + 1))

\* only add_block is called, with the blocks of either miner
NextAdd ==
    \E block \in BlockInputs(chain)
                \cup {MinedBlock(chain, transactions, "B") : transactions \in TxLists}
                \cup {LaterBlock(chain, miner) : miner \in {"A", "B"}} :
        Len(chain) < MaxChain /\ AddBlock(block)

SpecAdd == Init /\ [][NextAdd]_vars

\* transaction lists of the blocks of a chain sent by a peer
PeerTxLists == {<<>>} \cup {<<SignedTx("A", "B", 20, 5, nonce)>> : nonce \in {0, 1}}

\* chains a peer sends in a CHAIN_RESPONSE: p continued by up to n blocks that
\* A mined, each with at most one transfer (Blockchain.from_dict checks nothing)
RECURSIVE PeerChainsFrom(_, _)
PeerChainsFrom(p, n) ==
    IF n = 0 THEN {p}
    ELSE {p} \cup UNION {PeerChainsFrom(Append(p, MinedBlock(p, transactions, "A")), n - 1) :
                            transactions \in PeerTxLists}

PeerChains == PeerChainsFrom(<<Genesis>>, MaxChain - 1)

\* blocks arrive one by one, and whole chains arrive from peers
NextPeerChain ==
    \/ \E block \in BlockInputs(chain) : Len(chain) < MaxChain /\ AddBlock(block)
    \/ \E new_chain \in PeerChains : ReplaceChain(new_chain)

SpecPeerChain == Init /\ [][NextPeerChain]_vars

-----------------------------------------------------------------------------
(* The Mempool and the calls made on it *)

\* a transaction whose dict carries the hash of another one
\* (Transaction.from_dict keeps it)
SuppliedHashTx ==
    [SignedTx("A", "B", 20, 5, 0) EXCEPT !._hash = TxComputeHash(SignedTx("A", "B", 30, 0, 0))]

\* transactions offered to the Mempool
PoolTxs == WellFormedTxs \cup {SuppliedHashTx}

PoolCalled(op, ok) == [op |-> op, ok |-> ok, error |-> ""]

ledgerVars == <<chain, state, metrics>>

\* mempool.add_transaction(tx)
AddTransaction(tx) ==
    LET r == add_transaction(mempool, tx, clock)
    IN /\ mempool' = r.pool
       /\ last' = [op |-> "add_transaction", ok |-> r.ok, error |-> "",
                   evicted |-> r.evicted]
       /\ UNCHANGED <<ledgerVars, clock, network, pow, p2p, nodeVars>>

\* mempool.remove_transaction(tx_hash)
RemoveTransaction(tx_hash) ==
    /\ mempool' = remove_transaction(mempool, tx_hash)
    /\ last' = PoolCalled("remove_transaction", has_transaction(mempool, tx_hash))
    /\ UNCHANGED <<ledgerVars, clock, network, pow, p2p, nodeVars>>

\* mempool.remove_transactions(tx_hashes)
RemoveTransactions(tx_hashes) ==
    /\ mempool' = remove_transactions(mempool, tx_hashes)
    /\ last' = PoolCalled("remove_transactions", TRUE)
    /\ UNCHANGED <<ledgerVars, clock, network, pow, p2p, nodeVars>>

\* mempool.cleanup_expired()
CleanupExpired ==
    /\ mempool' = cleanup_expired(mempool, clock)
    /\ last' = PoolCalled("cleanup_expired", TRUE)
    /\ UNCHANGED <<ledgerVars, clock, network, pow, p2p, nodeVars>>

\* mempool.clear()
Clear ==
    /\ mempool' = <<>>
    /\ last' = PoolCalled("clear", TRUE)
    /\ UNCHANGED <<ledgerVars, clock, network, pow, p2p, nodeVars>>

\* time passes
Tick ==
    /\ clock < MaxClock
    /\ clock' = clock + 1
    /\ UNCHANGED <<ledgerVars, last, mempool, nodeVars, network, pow, p2p>>

NextMempool ==
    \/ \E tx \in PoolTxs : AddTransaction(tx)
    \/ \E tx \in PoolTxs : RemoveTransaction(TxHash(tx))
    \/ \E t, u \in PoolTxs : RemoveTransactions({TxHash(t), TxHash(u)})
    \/ CleanupExpired
    \/ Clear
    \/ Tick

SpecMempool == Init /\ [][NextMempool]_vars

-----------------------------------------------------------------------------
(* P2PNode: the gossip layer of the node "A", whose peers are "B" and "C" *)

NodeId == "A"
PeerIds == {"B", "C"}

\* network.Message
Message(msg_type, data, msg_id, sender_id) ==
    [msg_type |-> msg_type, data |-> data, msg_id |-> msg_id, sender_id |-> sender_id]

\* str(uuid.uuid4()) drawn for a message of the node: a value no envelope of
\* a peer carries, named after what is sent
Uuid4(content) == <<"uuid4", <<NodeId, content>>>>

\* the blocks B mined on the genesis block
PeerBlock == MinedBlock(<<Genesis>>, <<>>, "B")
AheadBlock == MinedBlock(<<Genesis, PeerBlock>>, <<>>, "B")

\* the msg_id B drew for its k-th envelope
PeerMsgId(k) == <<"uuid4", <<"B", k>>>>

\* the envelopes B has sent; every peer relays them unchanged
Envelopes ==
    { Message("NEW_BLOCK", PeerBlock, PeerMsgId(1), "B"),
      Message("NEW_TX", SignedTx("B", "A", 20, 0, 0), PeerMsgId(2), "B"),
      Message("CHAIN_RESPONSE", <<Genesis, PeerBlock, AheadBlock>>, PeerMsgId(3), "B"),
      Message("GET_CHAIN", None, PeerMsgId(4), "B") }

\* the envelopes whose copies reach the node over both of its connections
GossipEnvelopes == {m \in Envelopes : m.msg_type \in {"NEW_BLOCK", "NEW_TX"}}

\* one line written to the socket of the peer `to`
Sent(to, msg_type, msg_id) == [to |-> to, msg_type |-> msg_type, msg_id |-> msg_id]

\* P2PNode._gossip_message(message, exclude_peer): the lines written
GossipMessage(ps, msg_type, msg_id, exclude_peer) ==
    {Sent(p, msg_type, msg_id) : p \in ps \ {exclude_peer}}

\* P2PNode.send_to_peer(peer_id, msg_type, data): the lines written
SendToPeer(ps, peer_id, msg_type) ==
    IF peer_id \in ps THEN {Sent(peer_id, msg_type, Uuid4(msg_type))} ELSE {}

\* the values of (message_drop_prob, message_delay_ms) that
\* set_fault_injection(drop_prob=0.0, delay_ms=0) leaves; 1 stands for a
\* positive value
FaultSettings ==
    { [drop_prob |-> 0, delay_ms |-> 0],
      [drop_prob |-> 1, delay_ms |-> 0],
      [drop_prob |-> 0, delay_ms |-> 1] }

\* number of _handle_message calls the model lets wait in the delay, and of
\* mine_next_block tasks it lets wait for their start
MaxDelayed == 1
MaxTasks == 1

\* BlockchainNode.min_transactions_to_mine
MinTransactionsToMine == 1

\* delivered with one more envelope of this msg_id
CountDelivery(d, msg_id) ==
    (msg_id :> (IF msg_id \in DOMAIN d THEN d[msg_id] + 1 ELSE 1)) @@ d

-----------------------------------------------------------------------------
(* BlockchainNode: the message handlers *)

\* _handle_new_transaction as it would be if can_apply_transaction had been
\* evaluated before another task changed the state: its result is not that of
\* the state the transaction is admitted in
HandleNewTransactionStale(message) ==
    LET tx == message.data
        r == add_transaction(mempool, tx, clock)
        admitted == /\ ~has_transaction(mempool, TxHash(tx))
                    /\ \E c \in {<<Genesis>>, <<Genesis, PeerBlock>>} :
                          CanApplyTransaction(RebuildState(state, c), tx) = ""
    IN /\ mempool' = IF admitted THEN r.pool ELSE mempool
       /\ mine_tasks' = IF /\ admitted
                           /\ auto_mine /\ ~is_mining
                           /\ Size(r.pool) >= MinTransactionsToMine
                        THEN mine_tasks + 1 ELSE mine_tasks
       /\ mine_tasks' <= MaxTasks
       /\ UNCHANGED <<chain, state, is_mining, stop_mining_event, searches>>

\* BlockchainNode._handle_new_transaction
HandleNewTransaction(message) ==
    LET tx == message.data
        r == add_transaction(mempool, tx, clock)
        admitted == /\ ~has_transaction(mempool, TxHash(tx))
                    /\ CanApplyTransaction(state, tx) = ""
    IN /\ mempool' = IF admitted THEN r.pool ELSE mempool
       /\ mine_tasks' = IF /\ admitted
                           /\ auto_mine /\ ~is_mining
                           /\ Size(r.pool) >= MinTransactionsToMine
                        THEN mine_tasks + 1 ELSE mine_tasks
       /\ mine_tasks' <= MaxTasks
       /\ UNCHANGED <<chain, state, is_mining, stop_mining_event, searches>>

\* BlockchainNode._handle_new_block (mining_task is always None); every search
\* in progress is marked as overtaken by the appended block
HandleNewBlock(message) ==
    LET block == message.data
        r == add_block(chain, state, block)
    IN /\ chain' = r.chain
       /\ state' = r.state
       /\ mempool' = IF r.ok THEN remove_transactions(mempool, BlockTxHashes(block))
                      ELSE mempool
       /\ stop_mining_event' = IF r.ok /\ is_mining THEN TRUE ELSE stop_mining_event
       /\ is_mining' = IF r.ok THEN FALSE ELSE is_mining
       /\ searches' = IF r.ok
                       THEN [i \in 1..Len(searches) |->
                                [searches[i] EXCEPT !.overtaken = TRUE]]
                       ELSE searches
       /\ UNCHANGED mine_tasks

\* BlockchainNode._handle_get_chain
HandleGetChain(message) ==
    /\ UNCHANGED <<chain, state, mempool, is_mining, stop_mining_event, mine_tasks,
                   searches>>

\* BlockchainNode._handle_chain_response
HandleChainResponse(message) ==
    LET r == replace_chain(chain, state, message.data)
    IN /\ chain' = r.chain
       /\ state' = r.state
       /\ mempool' = IF r.ok
                      THEN remove_transactions(mempool,
                               UNION {BlockTxHashes(r.chain[i]) : i \in 1..Len(r.chain)})
                      ELSE mempool
       /\ UNCHANGED <<is_mining, stop_mining_event, mine_tasks, searches>>

\* what the handler of the message writes with send_to_peer
HandlerSends(message) ==
    IF message.msg_type = "NEW_BLOCK"
    THEN IF ~add_block(chain, state, message.data).ok /\ message.data.index > Len(chain)
         THEN SendToPeer(peers, message.sender_id, "GET_CHAIN") ELSE {}
    ELSE IF message.msg_type = "GET_CHAIN"
         THEN SendToPeer(peers, message.sender_id, "CHAIN_RESPONSE")
    ELSE {}

\* "await self.message_handler(message)" and the gossip after it: the second
\* half of P2PNode._handle_message, for a message read from the peer `from`
HandleNetworkMessage(message, from) ==
    /\ \/ message.msg_type = "NEW_TX" /\ HandleNewTransaction(message)
       \/ message.msg_type = "NEW_BLOCK" /\ HandleNewBlock(message)
       \/ message.msg_type = "GET_CHAIN" /\ HandleGetChain(message)
       \/ message.msg_type = "CHAIN_RESPONSE" /\ HandleChainResponse(message)
    /\ delivered' = CountDelivery(delivered, message.msg_id)
    /\ out' = HandlerSends(message)
                \cup GossipMessage(peers, message.msg_type, message.msg_id, from)
    /\ UNCHANGED <<last, metrics, clock, network, pow, p2p, is_crashed, peers, fault, auto_mine>>

-----------------------------------------------------------------------------
(* P2PNode and BlockchainNode: receiving, broadcasting, stopping, restarting *)

NoPeer == ""                        \* exclude_peer=None

\* P2PNode._handle_message(message_data, sender_id) up to the injected delay,
\* for a line read from the connection of the peer `from`; without a delay
\* the handler and the gossip follow in the same step
Receive(from, message) ==
    /\ is_crashed \/ from \in peers
    /\ IF is_crashed \/ message.msg_id \in seen_messages
       THEN /\ out' = {}
            /\ UNCHANGED <<ledgerVars, last, poolVars, network, pow, p2p, is_crashed, seen_messages, peers,
                           fault, delayed, delivered, mineVars>>
       ELSE /\ seen_messages' = seen_messages \cup {message.msg_id}
            /\ \/ /\ fault.drop_prob > 0
                  /\ out' = {}
                  /\ UNCHANGED <<ledgerVars, last, poolVars, network, pow, p2p, is_crashed, peers, fault,
                                 delayed, delivered, mineVars>>
               \/ /\ fault.delay_ms > 0
                  /\ Len(delayed) < MaxDelayed
                  /\ delayed' = Append(delayed, [message |-> message, from |-> from])
                  /\ out' = {}
                  /\ UNCHANGED <<ledgerVars, last, poolVars, network, pow, p2p, is_crashed, peers, fault,
                                 delivered, mineVars>>
               \/ /\ fault.delay_ms = 0
                  /\ HandleNetworkMessage(message, from)
                  /\ UNCHANGED delayed

\* P2PNode._handle_message after "await asyncio.sleep(...)": the i-th waiting
\* call goes on with the handler and the gossip
Deliver(i) ==
    /\ HandleNetworkMessage(delayed[i].message, delayed[i].from)
    /\ delayed' = WithoutEntry(delayed, i)
    /\ UNCHANGED seen_messages

\* P2PNode.set_fault_injection, by FaultInjector.set_message_drop_rate or
\* set_message_delay
SetFaultInjection(setting) ==
    /\ fault # setting
    /\ fault' = setting
    /\ out' = {}
    /\ UNCHANGED <<ledgerVars, last, poolVars, network, pow, p2p, is_crashed, seen_messages, peers, delayed,
                   delivered, mineVars>>

\* BlockchainNode.connect_to_peer(peer_id, ...) of a running node: the peer is
\* recorded and asked for its chain
ConnectToPeer(peer_id) ==
    /\ ~is_crashed
    /\ peer_id \notin peers
    /\ peers' = peers \cup {peer_id}
    /\ out' = SendToPeer(peers', peer_id, "GET_CHAIN")
    /\ UNCHANGED <<ledgerVars, last, poolVars, network, pow, p2p, is_crashed, seen_messages, fault, delayed,
                   delivered, mineVars>>

\* BlockchainNode.stop(), also FaultInjector.crash_node: mining_task is None,
\* so nothing is cancelled; the calls waiting in the delay and the searches
\* go on.  Every search in progress is marked as overtaken by a stop.
Stop ==
    /\ is_mining' = FALSE
    /\ is_crashed' = TRUE
    /\ peers' = {}
    /\ searches' = [i \in 1..Len(searches) |-> [searches[i] EXCEPT !.stopped = TRUE]]
    /\ out' = {}
    /\ UNCHANGED <<ledgerVars, last, poolVars, network, pow, p2p, seen_messages, fault, delayed, delivered,
                   stop_mining_event, auto_mine, mine_tasks>>

\* P2PNode.restart() after a crash
Restart ==
    /\ is_crashed
    /\ is_crashed' = FALSE
    /\ seen_messages' = {}
    /\ delivered' = <<>>
    /\ out' = {}
    /\ UNCHANGED <<ledgerVars, last, poolVars, network, pow, p2p, peers, fault, delayed, mineVars>>

\* FaultInjector.restart_node(node_id) after crash_node: node.start() opens
\* the listener and leaves is_crashed as it is; each connect_to_peer records
\* the peer and sends GET_CHAIN, and the _listen_to_peer task it starts finds
\* is_crashed set, leaves its loop and deletes the peer
RestartNode ==
    /\ is_crashed
    /\ peers' = {}
    /\ out' = {Sent(p, "GET_CHAIN", Uuid4("GET_CHAIN")) : p \in PeerIds}
    /\ UNCHANGED <<ledgerVars, last, poolVars, network, pow, p2p, is_crashed, seen_messages, fault, delayed,
                   delivered, mineVars>>

\* P2PNode.broadcast(msg_type, data): the msg_ids seen afterwards and the
\* lines written
Broadcast(msg_type, content) ==
    IF is_crashed THEN [seen |-> seen_messages, sent |-> {}]
    ELSE [seen |-> seen_messages \cup {Uuid4(content)},
          sent |-> GossipMessage(peers, msg_type, Uuid4(content), NoPeer)]

\* transactions handed to submit_transaction
SubmitTxs == {SignedTx("B", "A", 30, 0, 0)}

\* BlockchainNode.submit_transaction(tx)
SubmitTransaction(tx) ==
    LET error == CanApplyTransaction(state, tx)
        b == Broadcast("NEW_TX", TxHash(tx))
    IN /\ mempool' = IF error = "" THEN add_transaction(mempool, tx, clock).pool
                      ELSE mempool
       /\ seen_messages' = IF error = "" THEN b.seen ELSE seen_messages
       /\ out' = IF error = "" THEN b.sent ELSE {}
       /\ last' = [op |-> "submit_transaction", ok |-> error = "", error |-> error]
       /\ UNCHANGED <<ledgerVars, clock, network, pow, p2p, is_crashed, peers, fault, delayed,
                      delivered, mineVars>>

NextGossip ==
    \/ \E peer_id \in PeerIds : ConnectToPeer(peer_id)
    \/ \E setting \in FaultSettings : SetFaultInjection(setting)
    \/ \E from \in PeerIds, message \in GossipEnvelopes : Receive(from, message)
    \/ \E i \in 1..Len(delayed) : Deliver(i)
    \/ \E tx \in SubmitTxs : SubmitTransaction(tx)
    \/ Stop
    \/ Restart
    \/ RestartNode

SpecGossip == Init /\ [][NextGossip]_vars

-----------------------------------------------------------------------------
(* BlockchainNode: mining.  A search is the coroutine of one
   mine_next_block call inside mine_block_async.  How many iterations the
   search needs is not modelled: it either returns before its first
   "await asyncio.sleep(0)" or is suspended there, and a suspended search is
   an entry of `searches`. *)

MaxSearches == 2                    \* searches suspended at the same time
MaxCount == 100                     \* get_top_transactions(max_count=100)

\* blockchain.get_latest_block()
get_latest_block(c) == c[Len(c)]

\* the first entry with the highest fee, in dict order
FirstHighestFee(p) ==
    CHOOSE i \in 1..Len(p) :
        /\ \A j \in 1..Len(p) : p[j].tx.fee <= p[i].tx.fee
        /\ \A j \in 1..(i - 1) : p[j].tx.fee < p[i].tx.fee

\* "txs.sort(key=lambda tx: tx.fee, reverse=True)": a stable sort
RECURSIVE SortByFee(_)
SortByFee(p) ==
    IF p = <<>> THEN <<>>
    ELSE LET i == FirstHighestFee(p)
         IN <<p[i].tx>> \o SortByFee(WithoutEntry(p, i))

\* get_top_transactions as it would be with sort_by_fee=False
get_top_transactions_unsorted(p, max_count) ==
    LET txs == [i \in 1..Len(p) |-> p[i].tx]
    IN SubSeq(txs, 1, IF Len(txs) < max_count THEN Len(txs) ELSE max_count)

\* Mempool.get_top_transactions(max_count)
get_top_transactions(p, max_count) ==
    LET txs == SortByFee(p)
    IN SubSeq(txs, 1, IF Len(txs) < max_count THEN Len(txs) ELSE max_count)

\* a search suspended in mine_block_async; `stopped` records that stop() was
\* called while it was suspended, `overtaken` that a NEW_BLOCK was appended
Search(block, target_index) ==
    [block |-> block, target_index |-> target_index, stopped |-> FALSE,
     overtaken |-> FALSE]

\* what a mine_next_block call returned: ok when it returned the block, and
\* otherwise the message it logged before it returned None
Mined(ok, error) == [op |-> "mine_next_block", ok |-> ok, error |-> error]

\* the message logged by a call that returns None after its search
MiningError(success, discarded, r) ==
    IF ~success THEN "Mining stopped or max iterations reached"
    ELSE IF discarded THEN "Block already mined by another node, discarding our work"
    ELSE IF ~r.ok THEN "Failed to add mined block: " \o r.error
    ELSE ""

\* mine_next_block as it would be without the test of `success`
MiningReturnsAnyway(block, target_index, success) ==
    LET mined == Mine(block)
        r == add_block(chain, state, mined)
        b == Broadcast("NEW_BLOCK", BlockHash(mined))
        discarded == get_latest_block(chain).index >= target_index
        added == ~discarded /\ r.ok
    IN /\ chain' = IF added THEN r.chain ELSE chain
       /\ state' = IF added THEN r.state ELSE state
       /\ mempool' = IF added THEN remove_transactions(mempool, BlockTxHashes(mined))
                      ELSE mempool
       /\ seen_messages' = IF added THEN b.seen ELSE seen_messages
       /\ out' = IF added THEN b.sent ELSE {}
       /\ is_mining' = FALSE
       /\ last' = Mined(added, MiningError(success, discarded, r))

\* mine_next_block after "await self.consensus.mine_block_async(...)" has
\* returned `success`, the finally clause included
MiningReturns(block, target_index, success) ==
    LET mined == Mine(block)
        r == add_block(chain, state, mined)
        b == Broadcast("NEW_BLOCK", BlockHash(mined))
        discarded == success /\ get_latest_block(chain).index >= target_index
        added == success /\ ~discarded /\ r.ok
    IN /\ last' = Mined(added, MiningError(success, discarded, r))
       /\ chain' = IF added THEN r.chain ELSE chain
       /\ state' = IF added THEN r.state ELSE state
       /\ mempool' = IF added THEN remove_transactions(mempool, BlockTxHashes(mined))
                      ELSE mempool
       /\ seen_messages' = IF added THEN b.seen ELSE seen_messages
       /\ out' = IF added THEN b.sent ELSE {}
       /\ is_mining' = FALSE

\* BlockchainNode.mine_next_block(max_iterations) up to the first point where
\* the search is suspended; `task` tells the call made by the task that
\* _handle_new_transaction created from the direct call
\* (the task may start at any point after its creation: its order relative to
\* the searches already suspended is left open)
MineNextBlockUpTo(task, outcome, max_chain) ==
    /\ task => mine_tasks > 0
    /\ Len(chain) < max_chain
    /\ mine_tasks' = IF task THEN mine_tasks - 1 ELSE mine_tasks
    /\ IF is_mining
       THEN /\ outcome = "found"
            /\ out' = {}
            /\ last' = Mined(FALSE, "Already mining")
            /\ UNCHANGED <<chain, state, mempool, seen_messages, is_mining,
                           stop_mining_event, searches>>
       ELSE LET latest_block == get_latest_block(chain)
                target_index == latest_block.index + 1
                block == CreateBlock(target_index,
                                     get_top_transactions(mempool, MaxCount),
                                     BlockHash(latest_block), NodeId, BlockTime)
            IN /\ stop_mining_event' = FALSE
               /\ \/ /\ outcome = "found"
                     /\ MiningReturns(block, target_index, TRUE)
                     /\ UNCHANGED searches
                  \/ /\ outcome = "max_iterations"
                     /\ ~task
                     /\ MiningReturns(block, target_index, FALSE)
                     /\ UNCHANGED searches
                  \/ /\ outcome = "suspended"
                     /\ Len(searches) < MaxSearches
                     /\ searches' = Append(searches, Search(block, target_index))
                     /\ is_mining' = TRUE
                     /\ out' = {}
                     /\ UNCHANGED <<chain, state, mempool, seen_messages, last>>
    /\ UNCHANGED <<metrics, clock, network, pow, p2p, is_crashed, peers, fault, delayed, delivered,
                   auto_mine>>

\* mine_next_block while the chain is shorter than MaxChain
MineNextBlock(task, outcome) == MineNextBlockUpTo(task, outcome, MaxChain)

\* the i-th suspended search goes on after "await asyncio.sleep(0)": it finds
\* stop_mining_event set and returns False, or finds a nonce and returns True
SearchResumes(i) ==
    /\ MiningReturns(searches[i].block, searches[i].target_index, ~stop_mining_event)
    /\ searches' = WithoutEntry(searches, i)
    /\ UNCHANGED <<metrics, clock, network, pow, p2p, is_crashed, peers, fault, delayed, delivered,
                   stop_mining_event, auto_mine, mine_tasks>>

\* BlockchainNode.enable_auto_mining()
EnableAutoMining ==
    /\ ~auto_mine
    /\ auto_mine' = TRUE
    /\ out' = {}
    /\ UNCHANGED <<ledgerVars, last, poolVars, network, pow, p2p, is_crashed, seen_messages, peers, fault,
                   delayed, delivered, is_mining, stop_mining_event, searches, mine_tasks>>

\* BlockchainNode.disable_auto_mining()
DisableAutoMining ==
    /\ auto_mine
    /\ auto_mine' = FALSE
    /\ out' = {}
    /\ UNCHANGED <<ledgerVars, last, poolVars, network, pow, p2p, is_crashed, seen_messages, peers, fault,
                   delayed, delivered, is_mining, stop_mining_event, searches, mine_tasks>>

NextMining ==
    \/ \E peer_id \in PeerIds : ConnectToPeer(peer_id)
    \/ \E from \in PeerIds, message \in Envelopes : Receive(from, message)
    \/ \E task \in BOOLEAN, outcome \in {"found", "max_iterations", "suspended"} :
           MineNextBlock(task, outcome)
    \/ \E i \in 1..Len(searches) : SearchResumes(i)
    \/ EnableAutoMining
    \/ DisableAutoMining
    \/ Stop

SpecMining == Init /\ [][NextMining]_vars

-----------------------------------------------------------------------------
(* A node among peers that hold the chain of B: the peers announce B's blocks
   with NEW_BLOCK, and a peer that is asked with GET_CHAIN answers with the
   chain it holds.  The answer is the next line the node reads. *)

\* the chain B ends up with
LongChain == <<Genesis, PeerBlock, AheadBlock>>

\* the NEW_BLOCK envelopes B broadcasts, relayed by every peer
BlockEnvelopes ==
    { Message("NEW_BLOCK", PeerBlock, PeerMsgId(1), "B"),
      Message("NEW_BLOCK", AheadBlock, PeerMsgId(5), "B") }

\* the chains a peer can hold when it answers: at least the blocks whose
\* announcement has reached this node
PeerChainsNow ==
    LET least == IF PeerMsgId(5) \in seen_messages THEN 3
                 ELSE IF PeerMsgId(1) \in seen_messages THEN 2 ELSE 1
    IN {SubSeq(LongChain, 1, n) : n \in least..Len(LongChain)}

\* the CHAIN_RESPONSE a peer writes in _handle_get_chain
ChainResponse(peer_id, c) ==
    Message("CHAIN_RESPONSE", c, <<"uuid4", <<peer_id, 10 + Len(c)>>>>, peer_id)

\* a GET_CHAIN was written in the last step and is not yet answered
Awaiting == \E s \in out : s.msg_type = "GET_CHAIN"

\* the peer that was asked answers
RespondChain ==
    \E s \in out, c \in PeerChainsNow :
        /\ s.msg_type = "GET_CHAIN"
        /\ Receive(s.to, ChainResponse(s.to, c))

NextReorg ==
    \/ \E peer_id \in PeerIds : ~Awaiting /\ ConnectToPeer(peer_id)
    \/ \E from \in PeerIds, message \in BlockEnvelopes :
           ~Awaiting /\ Receive(from, message)
    \/ ~Awaiting /\ MineNextBlock(FALSE, "found")
    \/ RespondChain

SpecReorg == Init /\ [][NextReorg]_vars

\* every request is answered
SpecReorgFair == SpecReorg /\ WF_vars(RespondChain)

-----------------------------------------------------------------------------
(* A running node without faults: it submits transactions, mines, and reads
   the blocks, transactions and chains its peers send *)

\* a chain of B that is longer than any chain the node mines
LongerChain == Append(LongChain, MinedBlock(LongChain, <<>>, "B"))

\* the lines the node reads: B's first block, a transaction of B, a copy of
\* the coinbase of the genesis block sent as a transaction, and B's chain
NodeEnvelopes ==
    { Message("NEW_BLOCK", PeerBlock, PeerMsgId(1), "B"),
      Message("NEW_TX", SignedTx("B", "A", 20, 0, 0), PeerMsgId(2), "B"),
      Message("NEW_TX", Genesis.transactions[1], PeerMsgId(6), "B"),
      Message("CHAIN_RESPONSE", LongerChain, PeerMsgId(7), "B") }

\* transactions handed to submit_transaction
NodeSubmitTxs == {SignedTx("B", "A", 20, 0, 0), SignedTx("B", "A", 20, 5, 0)}

NextNode ==
    \/ ConnectToPeer("B")
    \/ \E message \in NodeEnvelopes : Receive("B", message)
    \/ \E tx \in NodeSubmitTxs : SubmitTransaction(tx)
    \/ \E outcome \in {"found", "suspended"} : MineNextBlock(FALSE, outcome)
    \/ \E i \in 1..Len(searches) : SearchResumes(i)

SpecNode == Init /\ [][NextNode]_vars

-----------------------------------------------------------------------------
(* Vocabulary of the properties *)

Last(c) == c[Len(c)]

\* every balance of the ledger state is non-negative
NonNegative(st) == \A a \in DOMAIN st : st[a].balance >= 0

\* the transactions applied one after the other from the state st, from the
\* i-th on: each non-coinbase one meets the sender's nonce
RECURSIVE NoncesInOrder(_, _, _)
NoncesInOrder(st, transactions, i) ==
    IF i > Len(transactions) THEN TRUE
    ELSE LET tx == transactions[i]
             after == ApplyTransaction(st, tx)
         IN /\ tx.sender # COINBASE =>
                  /\ tx.nonce = GetNonce(st, tx.sender)
                  /\ GetNonce(after, tx.sender) = GetNonce(st, tx.sender) + 1
            /\ NoncesInOrder(after, transactions, i + 1)

\* the transactions applied one after the other from the state st, from the
\* i-th on: each non-coinbase one passes can_apply when its turn comes
RECURSIVE ApplicableInOrder(_, _, _)
ApplicableInOrder(st, transactions, i) ==
    IF i > Len(transactions) THEN TRUE
    ELSE /\ transactions[i].sender # COINBASE =>
               CanApplyTransaction(st, transactions[i]) = ""
         /\ ApplicableInOrder(ApplyTransaction(st, transactions[i]), transactions, i + 1)

\* the elements of a list
Elements(list) == {list[i] : i \in 1..Len(list)}

\* all transactions of the chain c, in the order they are applied
RECURSIVE ChainTransactions(_, _)
ChainTransactions(c, i) ==
    IF i > Len(c) THEN <<>> ELSE c[i].transactions \o ChainTransactions(c, i + 1)

-----------------------------------------------------------------------------
(* Properties *)

\* C1: after any sequence of add_block calls, every address of the ledger
\* state has a balance >= 0.
C1_BalancesNonNegative == NonNegative(state)

\* C2: whenever add_block or replace_chain has applied transactions, every
\* non-coinbase transaction carried the nonce its sender had when it was
\* applied, and the sender's nonce was one greater afterwards.
C2_NonceMatchesWhenApplied ==
    [][ /\ (last'.op = "add_block" /\ last'.ok) =>
              NoncesInOrder(state, Last(chain').transactions, 1)
        /\ (last'.op = "replace_chain" /\ last'.ok) =>
              NoncesInOrder(EmptyState, ChainTransactions(chain', 1), 1) ]_vars

\* the conditions C3 gives for add_block(block) to succeed
C3_Accepted(c, st, block) ==
    /\ block.index = Len(c)
    /\ block.previous_hash = BlockHash(Last(c))
    /\ IsValidProof(block)
    /\ block._merkle_root \in {None, ComputeMerkleRoot(block.transactions)}
    /\ block.transactions # <<>>
    /\ block.transactions[1].sender = COINBASE
    /\ TxIsValid(block.transactions[1], FALSE) = ""
    /\ ApplicableInOrder(st, block.transactions, 1)

\* C3: add_block(block) succeeds exactly when the index, the link, the proof
\* of work, the merkle root and the leading coinbase are right and every
\* non-coinbase transaction passes can_apply against the state advanced by the
\* earlier transactions of the block.
C3_AddBlockSucceedsExactlyWhen ==
    [][\A block \in BlockInputs(chain) :
          AddBlock(block) => (last'.ok <=> C3_Accepted(chain, state, block))]_vars


\* C4: a call of add_block or replace_chain that returns an error leaves the
\* chain and the account state as they were.
C4_FailureChangesNothing ==
    [][~last'.ok => (chain' = chain /\ state' = state)]_vars

\* C4 witness: add_block has refused a block for a transaction's nonce, on a
\* ledger that holds an account for the sender
C4_Witness ==
    /\ last.op = "add_block" /\ ~last.ok
    /\ last.error = "Transaction invalid: Invalid nonce"
    /\ "A" \in DOMAIN state

\* C5: the live account state is the state obtained by replaying the chain
\* from genesis on an empty state.
C5_StateIsReplayOfChain == state = ApplyChain(EmptyState, chain, 1)

\* C5 witness: the chain was replaced by one that carries a transfer
C5_Witness ==
    /\ last.op = "replace_chain" /\ last.ok
    /\ \E i \in 1..Len(chain) : Len(chain[i].transactions) > 1

\* C6: no transaction hash occurs in two blocks of the chain.
C6_TxHashInOneBlock ==
    \A i, j \in 1..Len(chain) :
        i < j => BlockTxHashes(chain[i]) \cap BlockTxHashes(chain[j]) = {}

\* C7: replace_chain refuses a candidate that is not longer than the chain
\* with the 'not longer' error and changes nothing, adopts only a strictly
\* longer one, and the length of the chain never decreases.
C7_ReplaceOnlyLonger ==
    /\ [](\A new_chain \in ChainInputs(chain) :
            Len(new_chain) <= Len(chain) =>
                replace_chain(chain, state, new_chain)
                    = Result(FALSE, "New chain is not longer", chain, state))
    /\ [][ /\ Len(chain') >= Len(chain)
           /\ (last'.op = "replace_chain" /\ last'.ok) => Len(chain') > Len(chain)
         ]_vars

\* C7 witness: a candidate was refused as not longer by a chain that has grown
C7_Witness ==
    /\ last.op = "replace_chain" /\ ~last.ok
    /\ last.error = "New chain is not longer"
    /\ Len(chain) > 1

\* C8: a chain that replace_chain has adopted replays from an empty state
\* with every non-coinbase transaction applicable (balance and nonce) when
\* its turn comes.
C8_AdoptedChainIsApplicable ==
    (last.op = "replace_chain" /\ last.ok) =>
        ApplicableInOrder(EmptyState, ChainTransactions(chain, 1), 1)

\* C9: the first block of the chain is always the locally configured genesis.
C9_GenesisNeverChanges == chain[1] = Genesis

\* C10: when replace_chain succeeds, the blocks of the old chain whose hashes
\* are not in the new chain (those the collector knows as mined) are added to
\* the collector's orphans, one entry each, and the genesis block is never
\* among the orphans.
C10_DisplacedBlocksReported ==
    [][(last'.op = "replace_chain" /\ last'.ok) =>
          LET displaced == (BlockHashes(chain) \ BlockHashes(chain'))
                               \cap metrics.blocks
          IN /\ Elements(metrics'.orphan_blocks)
                    = Elements(metrics.orphan_blocks) \cup displaced
             /\ Len(metrics'.orphan_blocks)
                    = Len(metrics.orphan_blocks) + Cardinality(displaced)
             /\ BlockHash(chain[1]) \notin Elements(metrics'.orphan_blocks)]_vars

\* C11: for every block of the chain, the hash recomputed from the block's
\* header fields begins with at least block.difficulty zeros.
C11_RecomputedHashMeetsDifficulty ==
    \A i \in 1..Len(chain) :
        LeadingZeros(BlockComputeHash(chain[i])) >= chain[i].difficulty

\* an inbound block without the supplied 'hash' field
WithoutSuppliedHash(block) == [block EXCEPT !._hash = None]

\* C12: the 'hash' field of an inbound block has no influence: add_block gives
\* the result, the account state and the chain length it gives for the same
\* block without the field.
C12_SuppliedHashHasNoInfluence ==
    [][\A block \in BlockInputs(chain) :
          AddBlock(block) =>
              LET r == add_block(chain, state, WithoutSuppliedHash(block))
              IN /\ last'.ok = r.ok
                 /\ state' = r.state
                 /\ Len(chain') = Len(r.chain)]_vars

\* C13: once a non-coinbase transaction of sender s with nonce n is applied in
\* the chain, can_apply_transaction rejects every transaction of s with a nonce
\* <= n, and with a nonce error when the balance of s covers it.
C13_AppliedNonceNotReusable ==
    \A tx \in Elements(ChainTransactions(chain, 1)) :
        tx.sender # COINBASE =>
            \A later \in WellFormedTxs :
                (later.sender = tx.sender /\ later.nonce <= tx.nonce) =>
                    LET error == CanApplyTransaction(state, later)
                    IN /\ error # ""
                       /\ GetBalance(state, later.sender) >= later.amount + later.fee
                              => error = "Invalid nonce"

\* C14: the pool holds at most max_size entries, no two with the same
\* transaction hash, and add_transaction of a transaction whose hash is in the
\* pool returns False and leaves the pool as it was.
C14_PoolBoundedAndUnique ==
    /\ [](/\ Len(mempool) <= MaxSize
          /\ \A i, j \in 1..Len(mempool) :
                 i # j => TxHash(mempool[i].tx) # TxHash(mempool[j].tx))
    /\ [][\A tx \in PoolTxs :
            (has_transaction(mempool, TxHash(tx)) /\ AddTransaction(tx))
                => (~last'.ok /\ mempool' = mempool)]_vars

\* C14 witness: a duplicate was refused by a full pool
C14_Witness ==
    /\ last.op = "add_transaction" /\ ~last.ok
    /\ Len(mempool) = MaxSize
    /\ \E tx \in PoolTxs : has_transaction(mempool, TxHash(tx)) /\ tx.fee > LowestFeeTx(mempool).fee

\* the lowest fee of the entries p
MinFee(p) == LowestFeeTx(p).fee

\* what C15 says of add_transaction(tx) on a full pool without expired entries
C15_Outcome(tx) ==
    IF tx.fee > MinFee(mempool)
    THEN /\ last'.ok
         /\ Len(mempool') = MaxSize
         /\ \E i \in 1..Len(mempool) :
                /\ mempool[i].tx.fee = MinFee(mempool)
                /\ mempool' = Append(WithoutEntry(mempool, i), Entry(tx, clock))
    ELSE ~last'.ok /\ mempool' = mempool

\* C15 as stated, for every transaction: on a full pool without expired
\* entries, add_transaction(tx) with a fee above the minimum evicts exactly one
\* minimum-fee entry and inserts tx, and with a fee at or below the minimum
\* returns False and changes nothing.
C15_AsStated ==
    [][\A tx \in PoolTxs :
          (/\ Len(mempool) = MaxSize
           /\ cleanup_expired(mempool, clock) = mempool
           /\ AddTransaction(tx)) => C15_Outcome(tx)]_vars

\* C15, for a transaction whose hash is not in the pool: on a full pool
\* without expired entries, add_transaction(tx) with a fee above the minimum
\* evicts exactly one minimum-fee entry, inserts tx and keeps the size at
\* max_size; with a fee at or below the minimum (a tie included) it returns
\* False and changes nothing.
C15_FullPoolEvictsLowestFee ==
    [][\A tx \in PoolTxs :
          (/\ Len(mempool) = MaxSize
           /\ cleanup_expired(mempool, clock) = mempool
           /\ ~has_transaction(mempool, TxHash(tx))
           /\ AddTransaction(tx)) => C15_Outcome(tx)]_vars

\* C15 witness: a full pool has evicted an entry for an incoming transaction
\* while another entry with the evicted fee stayed in the pool
C15_Witness ==
    /\ last.op = "add_transaction" /\ last.ok
    /\ last.evicted # None
    /\ Len(mempool) = MaxSize
    /\ \E i \in 1..Len(mempool) : mempool[i].tx.fee < mempool[Len(mempool)].tx.fee

\* C16: since the last restart the node has handed at most one envelope of
\* each msg_id to its message handler (and gossiped it at most once), and the
\* receipt of a msg_id already seen changes neither the ledger nor the mempool
\* and writes nothing.
C16_AtMostOneDeliveryPerMsgId ==
    /\ [](\A msg_id \in DOMAIN delivered : delivered[msg_id] <= 1)
    /\ [][\A from \in PeerIds, message \in GossipEnvelopes :
            (message.msg_id \in seen_messages /\ Receive(from, message))
                => (chain' = chain /\ state' = state /\ mempool' = mempool /\ out' = {})]_vars

\* C17: while is_crashed is set no envelope is handed to the message handler,
\* the envelopes that were waiting in the injected delay included, and a
\* broadcast writes nothing.
C17_CrashedNodeHandlesNothing ==
    [][is_crashed =>
          /\ \A msg_id \in DOMAIN delivered' :
                 msg_id \in DOMAIN delivered /\ delivered'[msg_id] <= delivered[msg_id]
          /\ (\E tx \in SubmitTxs : SubmitTransaction(tx)) => out' = {}]_vars

\* C19: FaultInjector.restart_node after crash_node leaves the node not
\* crashed, with the chain and the mempool it had.
C19_RestartNodeRevives ==
    [][RestartNode => (~is_crashed' /\ chain' = chain /\ mempool' = mempool)]_vars

\* C18: a mining attempt that was in progress when BlockchainNode.stop() was
\* called is cancelled: when its search goes on afterwards it adds no block to
\* the chain.
C18_StopCancelsMining ==
    [][\A i \in 1..Len(searches) :
          (searches[i].stopped /\ SearchResumes(i)) => chain' = chain]_vars

\* C20: at most one mining search is in progress on the node at any time.
C20_OneSearchAtATime == Len(searches) <= 1

\* the mining attempt changed nothing and returned None
MiningLeftNothing ==
    /\ chain' = chain /\ state' = state /\ mempool' = mempool
    /\ out' = {} /\ seen_messages' = seen_messages
    /\ ~last'.ok

\* C21: a search that ends appends its candidate only if the tip is still the
\* block the candidate was built on, and then appends exactly the candidate;
\* when the tip changed during the search, when the search was stopped by the
\* stop signal, or when it hit max_iterations, the call returns None, changes
\* neither chain, state nor mempool and broadcasts nothing.
C21_AppendsOnlyOnUnchangedTip ==
    [][/\ \A i \in 1..Len(searches) : SearchResumes(i) =>
              LET candidate == searches[i].block
                  tip_changed ==
                      BlockHash(get_latest_block(chain)) # candidate.previous_hash
              IN /\ chain' # chain =>
                        (~tip_changed /\ chain' = Append(chain, Mine(candidate)))
                 /\ (tip_changed \/ stop_mining_event) => MiningLeftNothing
       /\ \A task \in BOOLEAN :
              (~is_mining /\ MineNextBlock(task, "max_iterations")) => MiningLeftNothing
      ]_vars

\* a search ended after the tip had changed, and its block was discarded
C21_Witness ==
    /\ last = Mined(FALSE, "Block already mined by another node, discarding our work")
    /\ Len(chain) > 1
    /\ get_latest_block(chain).transactions[1].receiver # NodeId

\* C22: a mining attempt that was in progress when an inbound NEW_BLOCK was
\* appended returns on the stop signal, with no block and without having to
\* find a nonce, whatever was started in between; and the appended block is
\* the tip.
C22_OvertakenSearchStops ==
    [][/\ \A i \in 1..Len(searches) :
              (searches[i].overtaken /\ SearchResumes(i))
                  => last' = Mined(FALSE, "Mining stopped or max iterations reached")
       /\ \A from \in PeerIds, message \in Envelopes :
              (/\ message.msg_type = "NEW_BLOCK"
               /\ Receive(from, message)
               /\ chain' # chain) => get_latest_block(chain') = message.data
      ]_vars

\* C23: once the node has received NEW_BLOCK with the tip of B's chain while B
\* is a connected peer and B's chain is strictly longer than its own, it
\* eventually holds B's chain (unless its own chain has grown to that length
\* in the meantime).
C23_AdoptsLongerChain ==
    (/\ PeerMsgId(5) \in DOMAIN delivered
     /\ "B" \in peers
     /\ Len(chain) < Len(LongChain))
        ~> (chain = LongChain \/ Len(chain) >= Len(LongChain))

\* C24: whenever an inbound NEW_BLOCK fails to append and its index exceeds
\* the length of the local chain, a GET_CHAIN is written to a connected peer,
\* also when the envelope was relayed and its sender_id is not a peer.
C24_GetChainIsTransmitted ==
    [][\A from \in PeerIds, message \in BlockEnvelopes :
          (/\ Receive(from, message)
           /\ delivered' # delivered
           /\ chain' = chain
           /\ message.data.index > Len(chain))
              => \E s \in out' : s.msg_type = "GET_CHAIN" /\ s.to \in peers]_vars

\* the hashes of the transactions of a chain
ChainTxHashes(c) == UNION {BlockTxHashes(c[i]) : i \in 1..Len(c)}

\* C27: whenever the node has appended a block (received or mined) or has
\* replaced its chain, its mempool holds no transaction whose hash occurs in
\* its chain.
C27_PoolDisjointFromChain ==
    [][chain' # chain => PoolHashes(mempool') \cap ChainTxHashes(chain') = {}]_vars

\* the non-coinbase transactions of the blocks of c that are not blocks of d
DisplacedTxs(c, d) ==
    {tx \in Elements(ChainTransactions(c, 1)) :
        /\ tx.sender # COINBASE
        /\ \E i \in 1..Len(c) : /\ BlockHash(c[i]) \notin BlockHashes(d)
                                /\ tx \in Elements(c[i].transactions)}

\* C28: after a successful chain replacement every non-coinbase transaction of
\* a displaced block that is not in the new chain and is applicable against
\* the new state is in the mempool.
C28_DisplacedTxsReturn ==
    [][\A message \in NodeEnvelopes :
          (/\ message.msg_type = "CHAIN_RESPONSE"
           /\ Receive("B", message)
           /\ chain' = message.data)
              => \A tx \in DisplacedTxs(chain, chain') :
                     (/\ TxHash(tx) \notin ChainTxHashes(chain')
                      /\ CanApplyTransaction(state', tx) = "")
                         => has_transaction(mempool', TxHash(tx))]_vars

\* C29: submit_transaction(tx) returns True and writes a NEW_TX envelope to
\* its peers exactly when tx passes can_apply and this call admits it to the
\* mempool; otherwise it returns False, writes nothing and leaves the mempool
\* as it was.
C29_SubmitAdmitsOrRefuses ==
    [][\A tx \in NodeSubmitTxs : (SubmitTransaction(tx) /\ peers # {}) =>
          LET admitted == /\ CanApplyTransaction(state, tx) = ""
                          /\ add_transaction(mempool, tx, clock).ok
          IN IF admitted
             THEN /\ last'.ok
                  /\ \E s \in out' : s.msg_type = "NEW_TX"
                  /\ has_transaction(mempool', TxHash(tx))
             ELSE /\ ~last'.ok
                  /\ out' = {}
                  /\ mempool' = mempool]_vars

-----------------------------------------------------------------------------
(* Several BlockchainNodes that share the genesis block, and their connections *)

\* str(uuid.uuid4()) drawn by the node n
NetUuid4(n, content) == <<"uuid4", <<n, content>>>>

\* transactions of B handed to submit_transaction, one more than a mempool holds
NetTxs == {SignedTx("B", "A", 20 + k, k, 0) : k \in 0..MaxSize}

\* what a handler leaves: the node and the line it wrote with send_to_peer
Handled(node, send) == [node |-> node, send |-> send]

\* P2PNode.send_to_peer(peer_id, msg_type, data) of the node n
NetSendToPeer(n, node, peer_id, msg_type, data) ==
    IF peer_id \in network.peers[n]
    THEN [to |-> peer_id,
          message |-> Message(msg_type, data,
                              NetUuid4(n, <<msg_type, Cardinality(node.seen_messages)>>), n)]
    ELSE None

\* BlockchainNode._handle_new_transaction (auto_mine is off)
NetHandleNewTransaction(node, message) ==
    LET tx == message.data
        r == add_transaction(node.mempool, tx, clock)
        applicable == /\ ~has_transaction(node.mempool, TxHash(tx))
                      /\ CanApplyTransaction(node.state, tx) = ""
    IN IF applicable
       THEN [node EXCEPT !.mempool = r.pool,
                         !.admitted = IF r.ok THEN @ \cup {TxHash(tx)} ELSE @,
                         !.refused = IF r.ok THEN @ ELSE @ \cup {TxHash(tx)}]
       ELSE node

\* _handle_new_block as it would be if it dropped every block
NetHandleNewBlockDropped(n, node, message) == Handled(node, None)

\* BlockchainNode._handle_new_block
NetHandleNewBlock(n, node, message) ==
    LET block == message.data
        r == add_block(node.chain, node.state, block)
    IN IF r.ok
       THEN Handled([node EXCEPT !.chain = r.chain, !.state = r.state,
                                 !.mempool = remove_transactions(@, BlockTxHashes(block))],
                    None)
       ELSE Handled(node,
                    IF block.index > Len(node.chain)
                    THEN NetSendToPeer(n, node, message.sender_id, "GET_CHAIN", None)
                    ELSE None)

\* BlockchainNode._handle_chain_response
NetHandleChainResponse(node, message) ==
    LET r == replace_chain(node.chain, node.state, message.data)
    IN IF r.ok
       THEN [node EXCEPT !.chain = r.chain, !.state = r.state,
                         !.mempool = remove_transactions(@, ChainTxHashes(r.chain))]
       ELSE node

\* BlockchainNode._handle_network_message
NetHandleNetworkMessage(n, node, message) ==
    IF message.msg_type = "NEW_TX"
    THEN Handled(NetHandleNewTransaction(node, message), None)
    ELSE IF message.msg_type = "NEW_BLOCK"
    THEN NetHandleNewBlock(n, node, message)
    ELSE IF message.msg_type = "GET_CHAIN"
    THEN Handled(node, NetSendToPeer(n, node, message.sender_id, "CHAIN_RESPONSE",
                                     node.chain))
    ELSE Handled(NetHandleChainResponse(node, message), None)

\* _gossip_message as it would be if only the own messages were written
NetGossipOwnOnly(n, exclude_peer) ==
    IF exclude_peer = NoPeer THEN network.peers[n] ELSE {}

\* P2PNode._gossip_message(message, exclude_peer) of the node n: the peers
\* written to
NetGossipMessage(n, exclude_peer) == network.peers[n] \ {exclude_peer}

\* the connections after the node n wrote `send` and then `message` to each of
\* the peers in `to`
Written(links, n, send, message, to) ==
    [l \in DOMAIN links |->
        IF l[1] # n THEN links[l]
        ELSE links[l]
             \o (IF send # None /\ send.to = l[2] THEN <<send.message>> ELSE <<>>)
             \o (IF l[2] \in to THEN <<message>> ELSE <<>>)]

\* the connections after the first line from `from` to `to` was read
ReadLine(links, from, to) == [links EXCEPT ![<<from, to>>] = Tail(@)]

\* the nodes reached from the nodes in `from` over the connections
RECURSIVE Reachable(_)
Reachable(from) ==
    LET next == from \cup UNION {network.peers[n] : n \in from}
    IN IF next = from THEN from ELSE Reachable(next)

Connected == \A n \in NetNodes : Reachable({n}) = NetNodes

\* the connections the nodes make: a connects to b
Connections == {<<"A", "B">>, <<"B", "C">>, <<"C", "A">>}

\* a.connect_to_peer(b, host, port) and _handle_client on b, before the first
\* message is sent: each registers the other in its peers
NetConnectToPeer(a, b) ==
    /\ b \notin network.peers[a]
    /\ \A n \in NetNodes : network.nodes[n].seen_messages = {}
    /\ network' = [network EXCEPT !.peers[a] = @ \cup {b}, !.peers[b] = @ \cup {a}]
    /\ UNCHANGED <<ledgerVars, last, poolVars, nodeVars, pow, p2p>>

\* the network is connected, no line is on its way and the nodes all hold the
\* same chain
Quiet ==
    /\ Connected
    /\ \A l \in DOMAIN network.links : network.links[l] = <<>>
    /\ \A n, m \in NetNodes : network.nodes[n].chain = network.nodes[m].chain

\* BlockchainNode.submit_transaction(tx) on the node n while the network is
\* quiet, for a transaction that was not submitted before
NetSubmitTransaction(n, tx) ==
    LET node == network.nodes[n]
        msg_id == NetUuid4(n, TxHash(tx))
        r == add_transaction(node.mempool, tx, clock)
        message == Message("NEW_TX", tx, msg_id, n)
    IN /\ Quiet
       /\ \A m \in NetNodes : NetUuid4(m, TxHash(tx)) \notin network.nodes[m].seen_messages
       /\ CanApplyTransaction(node.state, tx) = ""
       /\ network' =
            [network EXCEPT
               !.nodes[n] = [node EXCEPT
                   !.mempool = r.pool,
                   !.admitted = IF r.ok THEN @ \cup {TxHash(tx)} ELSE @,
                   !.refused = IF r.ok THEN @ ELSE @ \cup {TxHash(tx)},
                   !.seen_messages = @ \cup {msg_id}],
               !.links = Written(@, n, None, message, NetGossipMessage(n, NoPeer))]
       /\ UNCHANGED <<ledgerVars, last, poolVars, nodeVars, pow, p2p>>

\* the loop of P2PNode._listen_to_peer on the node `to` reads the next line of
\* the peer `from` and calls _handle_message (no fault is injected)
NetHandleMessage(from, to) ==
    LET message == Head(network.links[<<from, to>>])
        node == network.nodes[to]
        seen == [node EXCEPT !.seen_messages = @ \cup {message.msg_id},
                             !.handled = CountDelivery(@, message.msg_id)]
        h == NetHandleNetworkMessage(to, seen, message)
    IN /\ network.links[<<from, to>>] # <<>>
       /\ network' =
            IF message.msg_id \in node.seen_messages
            THEN [network EXCEPT !.links = ReadLine(@, from, to)]
            ELSE [network EXCEPT
                    !.nodes[to] = h.node,
                    !.links = Written(ReadLine(@, from, to), to, h.send, message,
                                      NetGossipMessage(to, from))]
       /\ UNCHANGED <<ledgerVars, last, poolVars, nodeVars, pow, p2p>>

\* BlockchainNode.mine_next_block() on the node n, whose search finds a nonce
\* before anything else happens, called while the network is quiet
NetMineNextBlock(n) ==
    LET node == network.nodes[n]
        latest_block == get_latest_block(node.chain)
        block == Mine(CreateBlock(latest_block.index + 1,
                                  get_top_transactions(node.mempool, MaxCount),
                                  BlockHash(latest_block), n, BlockTime))
        r == add_block(node.chain, node.state, block)
        msg_id == NetUuid4(n, BlockHash(block))
    IN /\ Quiet
       /\ Len(node.chain) < MaxChain
       /\ r.ok
       /\ network' =
            [network EXCEPT
               !.nodes[n] = [node EXCEPT
                   !.chain = r.chain, !.state = r.state,
                   !.mempool = remove_transactions(@, BlockTxHashes(block)),
                   !.seen_messages = @ \cup {msg_id}],
               !.links = Written(@, n, None, Message("NEW_BLOCK", block, msg_id, n),
                                 NetGossipMessage(n, NoPeer)),
               !.mined = [miner |-> n, block |-> block, length |-> Len(node.chain)]]
       /\ UNCHANGED <<ledgerVars, last, poolVars, nodeVars, pow, p2p>>

\* the nodes that are handed transactions: the miner and another node
Submitters == {"A", "B"}

\* some node reads the next line of one of its connections
NetListenToPeer == \E from, to \in NetNodes : NetHandleMessage(from, to)

NextNetwork ==
    \/ \E c \in Connections : NetConnectToPeer(c[1], c[2])
    \/ \E n \in Submitters, tx \in NetTxs : NetSubmitTransaction(n, tx)
    \/ NetListenToPeer
    \/ NetMineNextBlock("B")

SpecNetwork == Init /\ [][NextNetwork]_vars

-----------------------------------------------------------------------------
(* Gossip between several nodes *)

\* the node n accepted tx in submit_transaction and broadcast it
Submitted(n, tx) == NetUuid4(n, TxHash(tx)) \in network.nodes[n].seen_messages

\* the envelopes with this msg_id that the handler of the node m processed
HandledCount(m, msg_id) ==
    IF msg_id \in DOMAIN network.nodes[m].handled
    THEN network.nodes[m].handled[msg_id] ELSE 0

\* the node m took tx into its mempool at some time
Admitted(m, tx) == TxHash(tx) \in network.nodes[m].admitted

\* the mempool of the node m was offered tx at some time
Offered(m, tx) == TxHash(tx) \in network.nodes[m].admitted \cup network.nodes[m].refused

\* a line written to a connection is not yet read
LinesWaiting == \E l \in DOMAIN network.links : network.links[l] # <<>>

\* the lines not yet read
Lines(net) == UNION {{<<l, i>> : i \in 1..Len(net.links[l])} : l \in DOMAIN net.links}

\* the msg_ids drawn so far
MsgIds(net) ==
    UNION {net.nodes[m].seen_messages : m \in NetNodes}
        \cup {net.links[x[1]][x[2]].msg_id : x \in Lines(net)}

\* the reading and handling left to do: the lines not yet read, and for every
\* msg_id a node has not seen the lines its handling can add
WorkLeft(net) ==
    Cardinality(Lines(net))
        + Cardinality(NetNodes)
            * Cardinality({x \in NetNodes \X MsgIds(net) :
                              x[2] \notin net.nodes[x[1]].seen_messages})

\* every read line brings the network nearer to the point where no line waits
ReadingEnds == [][LinesWaiting => WorkLeft(network') < WorkLeft(network)]_network

HasMinedTip(m) ==
    /\ Len(network.nodes[m].chain) = network.mined.length + 1
    /\ BlockHash(get_latest_block(network.nodes[m].chain)) = BlockHash(network.mined.block)

\* C26: in a connected network whose nodes hold the same chain, after a node
\* mined a block and broadcast NEW_BLOCK every node eventually has a chain one
\* block longer whose tip hash is the hash of the mined block: the reading of
\* the envelopes ends, and then every node has that chain
C26_BlockReachesEveryNode ==
    /\ ReadingEnds
    /\ [](~LinesWaiting /\ network.mined.miner \in NetNodes =>
            \A m \in NetNodes : HasMinedTip(m))

\* a node that is no direct peer of the miner has the mined block as its tip
C26_Witness ==
    /\ network.mined.miner \in NetNodes
    /\ \E m \in NetNodes \ (network.peers[network.mined.miner] \cup {network.mined.miner}) :
          HasMinedTip(m)

-----------------------------------------------------------------------------
(* A node that mines on its own chain while a peer sends a block and a coinbase *)

\* the block the node mines first, with an empty mempool
OwnBlock == MinedBlock(<<Genesis>>, <<>>, NodeId)

\* two transactions of the node's account with the same nonce
SpentTx == SignedTx(NodeId, "B", 20, 0, 0)
PendingTx == SignedTx(NodeId, "B", 20, 5, 0)

\* the block B mined on the node's block, with SpentTx from its mempool
PeerTxBlock == MinedBlock(<<Genesis, OwnBlock>>, <<SpentTx>>, "B")

\* the envelope B gossips for its block
SupplyEnvelopes == { Message("NEW_BLOCK", PeerTxBlock, PeerMsgId(8), "B") }

\* the transactions a client hands to submit_transaction: a payment of the
\* node's account, and a transaction whose sender is COINBASE
SupplySubmitTxs == { PendingTx, CreateCoinbase("B", BlockReward) }

\* the chain may get one block longer than MaxChain, so that a block can be
\* mined on three blocks
MaxMinedChain == MaxChain + 1

NextSupply ==
    \/ ConnectToPeer("B")
    \/ \E message \in SupplyEnvelopes : Receive("B", message)
    \/ \E tx \in SupplySubmitTxs : SubmitTransaction(tx)
    \/ MineNextBlockUpTo(FALSE, "found", MaxMinedChain)

SpecSupply == Init /\ [][NextSupply]_vars

-----------------------------------------------------------------------------
(* Blocks that declare their own difficulty *)

\* the difficulties a block of a peer declares, the node's own and lower ones
DeclaredDifficulties == 0..Difficulty

\* a coinbase-only block on c that declares the difficulty d and is mined
\* for that difficulty (Block.mine tests is_valid_proof of the block itself)
DeclaredBlock(c, miner, d) ==
    Mine([CreateBlock(Len(c), <<>>, BlockHash(c[Len(c)]), miner, BlockTime)
            EXCEPT !.difficulty = d])

\* the chains that continue a prefix of c with one or two declared blocks
DeclaredChains(c) ==
    LET one == UNION {{Append(SubSeq(c, 1, k), DeclaredBlock(SubSeq(c, 1, k), miner, d)) :
                          k \in 1..Len(c), d \in DeclaredDifficulties} :
                      miner \in {"A", "B"}}
    IN {q \in one \cup {Append(q, DeclaredBlock(q, "B", d)) :
                            q \in one, d \in DeclaredDifficulties} :
            Len(q) <= MaxChain}

NextDifficulty ==
    \/ \E miner \in {"A", "B"}, d \in DeclaredDifficulties :
          Len(chain) < MaxChain /\ AddBlock(DeclaredBlock(chain, miner, d))
    \/ \E new_chain \in DeclaredChains(chain) : ReplaceChain(new_chain)

SpecDifficulty == Init /\ [][NextDifficulty]_vars

-----------------------------------------------------------------------------
(* Difficulty adjustment *)

\* the times record_block_time is called with: far below the target, the
\* target, far above it
BlockTimes == {1, TargetBlockTime, 30}

RECURSIVE SumTimes(_, _)
SumTimes(times, i) ==
    IF i > Len(times) THEN 0 ELSE times[i] + SumTimes(times, i + 1)

\* "self.recent_block_times[-self.adjustment_interval:]"
LastTimes(times, n) ==
    IF n = 0 \/ n >= Len(times) THEN times
    ELSE SubSeq(times, Len(times) - n + 1, Len(times))

Min(a, b) == IF a < b THEN a ELSE b

Max(a, b) == IF a > b THEN a ELSE b

\* adjust_difficulty as it would be without min(..., self.max_difficulty)
adjust_difficulty_unbounded(pw) ==
    IF Len(pw.recent_block_times) < AdjustmentInterval THEN pw.difficulty
    ELSE LET recent_times == LastTimes(pw.recent_block_times, AdjustmentInterval)
             total == SumTimes(recent_times, 1)
             n == Len(recent_times)
         IN IF 2 * total < TargetBlockTime * n
            THEN pw.difficulty + 1
            ELSE IF total > 2 * TargetBlockTime * n
            THEN Max(pw.difficulty - 1, MinDifficulty)
            ELSE pw.difficulty

\* ProofOfWork.adjust_difficulty: the new difficulty. ratio < 0.5 is
\* 2 * sum < target * n, and ratio > 2.0 is sum > 2 * target * n
adjust_difficulty(pw) ==
    IF Len(pw.recent_block_times) < AdjustmentInterval THEN pw.difficulty
    ELSE LET recent_times == LastTimes(pw.recent_block_times, AdjustmentInterval)
             total == SumTimes(recent_times, 1)
             n == Len(recent_times)
         IN IF 2 * total < TargetBlockTime * n
            THEN Min(pw.difficulty + 1, MaxDifficulty)
            ELSE IF total > 2 * TargetBlockTime * n
            THEN Max(pw.difficulty - 1, MinDifficulty)
            ELSE pw.difficulty

\* ProofOfWork.record_block_time(block_time)
record_block_time(pw, block_time) ==
    LET appended == Append(pw.recent_block_times, block_time)
        kept == IF Len(appended) > AdjustmentInterval * 2
                THEN LastTimes(appended, AdjustmentInterval) ELSE appended
        recorded == [pw EXCEPT !.recent_block_times = kept]
    IN IF pw.enable_adjustment /\ Len(kept) >= AdjustmentInterval
       THEN [recorded EXCEPT !.difficulty = adjust_difficulty(recorded)]
       ELSE recorded

nodeState == <<chain, state, last, metrics, mempool, clock, netVars, mineVars, network>>

\* a ProofOfWork is constructed with a difficulty and enable_adjustment
NewProofOfWork(difficulty, enable_adjustment) ==
    /\ pow = ProofOfWork(Difficulty, FALSE)
    /\ pow' = ProofOfWork(difficulty, enable_adjustment)
    /\ UNCHANGED <<nodeState, p2p>>

RecordBlockTime(block_time) ==
    /\ pow' = record_block_time(pow, block_time)
    /\ UNCHANGED <<nodeState, p2p>>

NextPow ==
    \/ \E difficulty \in MinDifficulty..MaxDifficulty, enable_adjustment \in BOOLEAN :
          NewProofOfWork(difficulty, enable_adjustment)
    \/ \E block_time \in BlockTimes : RecordBlockTime(block_time)

SpecPow == Init /\ [][NextPow]_vars

-----------------------------------------------------------------------------
(* The connections of a P2PNode *)

\* streams opened by connect_to_peer and _handle_client in a run of the model
MaxStreams == 3

\* the (host, port) kept in peer_info
PeerAddress(p) == <<"127.0.0.1", p>>

\* "del table[peer_id]" where the key is present
Del(table, peer_id) == [q \in DOMAIN table \ {peer_id} |-> table[q]]

\* "table[peer_id] = value"
Put(table, peer_id, value) ==
    [q \in DOMAIN table \cup {peer_id} |-> IF q = peer_id THEN value ELSE table[q]]

\* the "finally" of _listen_to_peer in the tables t: "if peer_id in self.peers:
\* del self.peers[peer_id]; del self.peer_info[peer_id]"
ListenerEnds(t, l) ==
    [t EXCEPT !.peers = IF l.peer_id \in DOMAIN @ THEN Del(@, l.peer_id) ELSE @,
              !.peer_info = IF l.peer_id \in DOMAIN t.peers THEN Del(@, l.peer_id) ELSE @,
              !.listeners = @ \ {l}]

\* the listeners of the stream w that wait in "await reader.readline()": the
\* end of the stream wakes them before the task that closed it goes on
Reading(t, w) == {l \in t.listeners : l.stream = w /\ l.at = "readline"}

RECURSIVE EndAll(_, _)
EndAll(t, ls) ==
    IF ls = {} THEN t
    ELSE LET l == CHOOSE l \in ls : TRUE
         IN EndAll(ListenerEnds(t, l), ls \ {l})

\* connect_to_peer(peer_id, ...) as heal_partition and restart_node call it,
\* or _handle_client for the handshake of peer_id: the writer is stored and a
\* _listen_to_peer task is created
P2PConnectToPeer(peer_id) ==
    /\ p2p.streams < MaxStreams
    /\ peer_id \notin DOMAIN p2p.peers
    /\ LET w == p2p.streams + 1
       IN p2p' = [p2p EXCEPT !.streams = w,
                             !.peers = Put(@, peer_id, w),
                             !.peer_info = Put(@, peer_id, PeerAddress(peer_id)),
                             !.listeners = @ \cup {[peer_id |-> peer_id, stream |-> w,
                                                    at |-> "readline"]}]
    /\ UNCHANGED <<nodeState, pow>>

\* a line arrives: the listener is in _handle_message, suspended in the
\* injected delay or in the message handler
P2PReadLine(l) ==
    /\ l \in p2p.listeners /\ l.at = "readline" /\ l.stream \notin p2p.closed
    /\ p2p' = [p2p EXCEPT !.listeners = (@ \ {l}) \cup {[l EXCEPT !.at = "handle"]}]
    /\ UNCHANGED <<nodeState, pow>>

\* _handle_message returns: the loop reads again, and ends at once when the
\* stream was closed in the meantime
P2PHandled(l) ==
    /\ l \in p2p.listeners /\ l.at = "handle"
    /\ p2p' = IF l.stream \in p2p.closed THEN ListenerEnds(p2p, l)
              ELSE [p2p EXCEPT !.listeners = (@ \ {l}) \cup {[l EXCEPT !.at = "readline"]}]
    /\ UNCHANGED <<nodeState, pow>>

\* the peer closes the stream w (it stopped or crashed)
P2PStreamCloses(w) ==
    /\ w \in 1..p2p.streams /\ w \notin p2p.closed
    /\ p2p' = EndAll([p2p EXCEPT !.closed = @ \cup {w}], Reading(p2p, w))
    /\ UNCHANGED <<nodeState, pow>>

\* FaultInjector.partition_network for this node and peer_id: the writer is
\* closed and the peer is taken out of both tables
P2PPartition(peer_id) ==
    /\ peer_id \in DOMAIN p2p.peers
    /\ LET w == p2p.peers[peer_id]
           ended == EndAll([p2p EXCEPT !.closed = @ \cup {w}], Reading(p2p, w))
       IN p2p' = [ended EXCEPT
                    !.peers = IF peer_id \in DOMAIN @ THEN Del(@, peer_id) ELSE @,
                    !.peer_info = IF peer_id \in DOMAIN @ THEN Del(@, peer_id) ELSE @]
    /\ UNCHANGED <<nodeState, pow>>

\* broadcast / _gossip_message: a line is written to every peer of the table;
\* a write to a closed stream raises or not, and the exception is logged
P2PGossipMessage(failed) ==
    /\ p2p.peers # P2PNode.peers
    /\ failed \subseteq {p \in DOMAIN p2p.peers : p2p.peers[p] \in p2p.closed}
    /\ p2p' = [p2p EXCEPT !.written = DOMAIN p2p.peers, !.failed = failed]
    /\ UNCHANGED <<nodeState, pow>>

NextP2P ==
    \/ \E peer_id \in PeerIds : P2PConnectToPeer(peer_id)
    \/ \E l \in p2p.listeners : P2PReadLine(l)
    \/ \E l \in p2p.listeners : P2PHandled(l)
    \/ \E w \in 1..MaxStreams : P2PStreamCloses(w)
    \/ \E peer_id \in PeerIds : P2PPartition(peer_id)
    \/ \E failed \in SUBSET PeerIds : P2PGossipMessage(failed)

SpecP2P == Init /\ [][NextP2P]_vars

-----------------------------------------------------------------------------
(* Fault knobs, coinbases, supply and links *)

\* the envelopes of this msg_id that wait in the injected delay
Waiting(msg_id) == {i \in 1..Len(delayed) : delayed[i].message.msg_id = msg_id}

\* C33: a copy of an envelope that the node discarded because of drop_prob,
\* arriving from a peer while the node is up and no fault is injected, is
\* handed to the message handler and gossiped to the other peers.
C33_DroppedEnvelopeRecovers ==
    [][\A from \in PeerIds, message \in GossipEnvelopes :
          (/\ ~is_crashed
           /\ fault = [drop_prob |-> 0, delay_ms |-> 0]
           /\ message.msg_id \in seen_messages
           /\ message.msg_id \notin DOMAIN delivered
           /\ Waiting(message.msg_id) = {}
           /\ Receive(from, message))
              => /\ message.msg_id \in DOMAIN delivered'
                 /\ GossipMessage(peers, message.msg_type, message.msg_id, from)
                        \subseteq out']_vars

\* C35: the mempool of the node never holds a transaction whose sender is
\* COINBASE, and no block of its chain holds one after its first transaction.
C35_CoinbaseOnlyLeadsBlocks ==
    /\ \A i \in 1..Len(mempool) : mempool[i].tx.sender # COINBASE
    /\ \A i \in 1..Len(chain) : \A k \in 2..Len(chain[i].transactions) :
           chain[i].transactions[k].sender # COINBASE

\* the sum of the balances of the accounts in `accounts`
RECURSIVE SumBalances(_, _)
SumBalances(st, accounts) ==
    IF accounts = {} THEN 0
    ELSE LET a == CHOOSE a \in accounts : TRUE
         IN st[a].balance + SumBalances(st, accounts \ {a})

\* C36: the balances of all accounts of the node add up to block_reward times
\* the number of blocks after the genesis block.
C36_SupplyIsRewardPerBlock ==
    SumBalances(state, DOMAIN state) = BlockReward * (Len(chain) - 1)

\* C37: a mine_next_block call whose search finds a nonce at once, so that the
\* tip cannot change during the search, appends its candidate: the chain
\* grows by one block and the call returns the block.
C37_OwnCandidateIsAccepted ==
    [][(~is_mining /\ MineNextBlockUpTo(FALSE, "found", MaxMinedChain)) =>
          /\ last' = Mined(TRUE, "")
          /\ Len(chain') = Len(chain) + 1]_vars

\* C38: every block the node accepted through add_block or replace_chain
\* declares a difficulty of at least the node's configured difficulty.
C38_AcceptedBlocksDeclareNodeDifficulty ==
    \A i \in 2..Len(chain) : chain[i].difficulty >= Difficulty

\* C39: in every reachable state the chain is linked: the block at position i
\* (counted from 0) has index i, and every block after the first names the
\* hash of the block before it as its previous_hash.
C39_ChainIsLinked ==
    \A i \in 1..Len(chain) :
        /\ chain[i].index = i - 1
        /\ i > 1 => chain[i].previous_hash = BlockHash(chain[i - 1])

\* a chain of three or more blocks was taken over by replace_chain
C39_Witness == Len(chain) >= 3 /\ last.op = "replace_chain" /\ last.ok

\* C31: a record_block_time call on a ProofOfWork whose difficulty is within
\* [min_difficulty, max_difficulty] leaves it within that range, changes it by
\* at most 1, and does not change it while adjustment is disabled or fewer
\* than adjustment_interval samples are recorded.
C31_DifficultyStaysInRange ==
    [][\A block_time \in BlockTimes :
          (/\ pow.difficulty \in MinDifficulty..MaxDifficulty
           /\ RecordBlockTime(block_time))
              => /\ pow'.difficulty \in MinDifficulty..MaxDifficulty
                 /\ pow'.difficulty - pow.difficulty \in {0 - 1, 0, 1}
                 /\ (~pow.enable_adjustment
                     \/ Len(pow'.recent_block_times) < AdjustmentInterval)
                        => pow'.difficulty = pow.difficulty]_vars

\* the difficulty stands at max_difficulty after an adjustment on samples far
\* below the target
C31_Witness ==
    /\ pow.enable_adjustment
    /\ Len(pow.recent_block_times) > AdjustmentInterval
    /\ \A i \in 1..Len(pow.recent_block_times) : pow.recent_block_times[i] = 1
    /\ pow.difficulty = MaxDifficulty

\* C32: when a write to a peer fails in a broadcast, that peer is no longer in
\* the sender's peer table when the broadcast has returned.
C32_FailedWriteDropsPeer ==
    [][\A failed \in SUBSET PeerIds :
          P2PGossipMessage(failed) => failed \cap DOMAIN p2p'.peers = {}]_vars

\* C40: a listener task that ends never takes a newer connection's entry out
\* of the peer table, and peers and peer_info have the same keys.
C40_OldListenerKeepsNewEntry ==
    [][/\ \A l \in p2p.listeners \ p2p'.listeners :
             (/\ l.peer_id \in DOMAIN p2p.peers
              /\ p2p.peers[l.peer_id] # l.stream)
                 => /\ l.peer_id \in DOMAIN p2p'.peers
                    /\ p2p'.peers[l.peer_id] = p2p.peers[l.peer_id]
       /\ DOMAIN p2p'.peers = DOMAIN p2p'.peer_info]_vars

\* peers and peer_info have the same keys
PeerTablesAgree == DOMAIN p2p.peers = DOMAIN p2p.peer_info

====
